---- MODULE Spec2Model ----
(***************************************************************************)
(* Model of the taxi_model_monitoring workflow                              *)
(* (src/airflow/dags/monitoring_dag.py): the eight tasks of one DAG run,    *)
(* their retry and trigger rules, the worker-local /tmp files the tasks     *)
(* hand data through, and the object store they write to.                   *)
(***************************************************************************)
EXTENDS Integers, Sequences, FiniteSets, TLC

\* ---------------------------------------------------------------- bounds
NumRuns == 2          \* DAG runs that may be active at once (catchup)
MaxLogs == 1          \* prediction log objects per day partition
MaxRows == 2          \* rows of a stored dataset
TryCap == 3           \* attempts of one task instance the model follows

\* ------------------------------------------------------ program constants
Retries == 1          \* default_args['retries']
WindowHours == 24     \* range(24) in get_monitoring_data
HoursPerDay == 24     \* strftime('%Y/%m/%d') partitions: one per calendar day
MinDuration == 1      \* df.duration >= 1
MaxDuration == 60     \* df.duration <= 60

MaxTriggerDay == 31   \* days after start_date a run of the epoch study is triggered
ClockAhead == 1       \* hours the worker's clock runs past the trigger
MaxInvocations == 3   \* invocations of lambda_handler in one container
MaxRecords == 2       \* Kinesis records of one event

Runs == 1..NumRuns
\* a missing file or object, an unassigned local; Some(x) is one holding x
Absent == <<>>
Unset == <<>>
Some(x) == <<x>>
ValueOf(o) == o[1]

\* ------------------------------------------------------------------ tasks
Checkers == {"check_data_quality", "check_model_performance", "check_lambda_health"}
Sinks == {"trigger_alert", "end_task"}
DriftPath == {"get_monitoring_data", "run_drift_check", "generate_drift_report"} \cup Sinks
Tasks == Checkers \cup DriftPath

\* (variant) the sinks wait for the assembly only, as the report generator does
UpstreamSinksEarly(t) ==
  CASE t = "run_drift_check" -> {"get_monitoring_data"}
    [] t = "generate_drift_report" -> {"get_monitoring_data"}
    [] t \in Sinks -> {"get_monitoring_data"}
    [] OTHER -> {}

\* (variant) the report generator waits for nothing
UpstreamReportFree(t) ==
  CASE t = "run_drift_check" -> {"get_monitoring_data"}
    [] t \in Sinks -> {"run_drift_check"}
    [] OTHER -> {}

\* (variant) the drift path is chained after the data quality checker
UpstreamChained(t) ==
  CASE t = "get_monitoring_data" -> {"check_data_quality"}
    [] t = "run_drift_check" -> {"get_monitoring_data"}
    [] t = "generate_drift_report" -> {"get_monitoring_data"}
    [] t \in Sinks -> {"run_drift_check"}
    [] OTHER -> {}

\* a >> b edges of the DAG, read as "upstream of"
Upstream(t) ==
  CASE t = "run_drift_check" -> {"get_monitoring_data"}
    [] t = "generate_drift_report" -> {"get_monitoring_data"}
    [] t \in Sinks -> {"run_drift_check"}
    [] OTHER -> {}

Downstream(t) == {u \in Tasks : t \in Upstream(u)}

\* first step of a task's callable
FirstStep(t) ==
  CASE t = "get_monitoring_data" -> "build"
    [] t = "run_drift_check" -> "read_ref"
    [] t = "generate_drift_report" -> "read_ref"
    [] t = "check_data_quality" -> "head"
    [] t = "check_model_performance" -> "head"
    [] t = "check_lambda_health" -> "get_function"
    [] OTHER -> "body"

\* worker-local files shared by every task instance on the worker
RefFile == "/tmp/reference_data_drift.pkl"
CurFile == "/tmp/current_data_drift.pkl"
ResultsFile == "/tmp/drift_test_results.json"
HtmlFile == "/tmp/drift_report.html"
\* worker-local files of the three checkers
MonitoringDataFile == "/tmp/monitoring_data.parquet"
QualityReportFile == "/tmp/quality_report.json"
PreprocessedFile == "/tmp/preprocessed_data.pkl"
ModelFile == "/tmp/model.pkl"
DvFile == "/tmp/dv.pkl"
PerformanceReportFile == "/tmp/performance_report.json"
HealthReportFile == "/tmp/health_report.json"
CheckerFiles == {MonitoringDataFile, QualityReportFile, PreprocessedFile, ModelFile,
                 DvFile, PerformanceReportFile, HealthReportFile}
TmpFiles == {RefFile, CurFile, ResultsFile, HtmlFile} \cup CheckerFiles

\* object-store keys written by the drift path, partitioned by run date
ResultsKey(r) == <<"monitoring/drift-results", r>>
ReportKey(r) == <<"drift-reports", r>>
\* report objects of the three checkers, partitioned by epoch and run date
QualityReportKey(r) == <<"monitoring/data-quality", r>>
PerformanceReportKey(r) == <<"monitoring/model-performance", r>>
HealthReportKey(r) == <<"monitoring/lambda-health", r>>
StoreKeys == {ResultsKey(r) : r \in Runs} \cup {ReportKey(r) : r \in Runs}
             \cup {QualityReportKey(r) : r \in Runs}
             \cup {PerformanceReportKey(r) : r \in Runs}
             \cup {HealthReportKey(r) : r \in Runs}

VARIABLES
  ts,            \* ts[r][t]: scheduler state of task t in run r
  tries,         \* tries[r][t]: attempts started so far
  pc,            \* pc[r][t]: position inside the running callable
  tmp,           \* tmp[f]: content of worker-local file f, or Absent
  s3,            \* s3[k]: content of object k, or Absent
  execTime,      \* execTime[r]: execution_date of run r, in hours
  valObj,        \* valObj[r]: models/{epoch}/preprocessed_data.pkl, or Absent
  rawObj,        \* rawObj[r]: raw-data/yellow_tripdata_{epoch}.parquet, or Absent
  predLogs,      \* predLogs[d]: objects under predictions/{day d}/
  listOutage,    \* day partitions whose listing raises
  reference_df,  \* get_monitoring_data locals
  current_df,
  log_errors,    \* "Error reading prediction log" lines printed by the attempt
  d_ref,         \* run_drift_check locals
  d_cur,
  all_passed,
  selector,      \* value returned by run_drift_check
  g_ref,         \* generate_drift_report locals
  g_cur,
  modelObjs,     \* modelObjs[r]: objects present under models/{epoch}/
  lambdaFn,      \* the inference function as the platform describes it, or Absent
  metrics,       \* metrics[k]: points the metrics sink accepted for key k
  result,        \* result[r][t]: what the last returned attempt of checker t returned
  dq,            \* dq[r]: check_data_quality locals and what its attempt did
  mp,            \* mp[r]: check_model_performance locals and what its attempt did
  lh,            \* lh[r]: check_lambda_health locals and what its attempt did
  clock,         \* wall clock of the worker, in hours
  evaluated,     \* evaluated[t]: what get_data_date_from_context returned to task t, per attempt
  trained,       \* keys the training run of the same execution_date wrote
  model,         \* lambda_function.py globals: the cached model, or None
  dict_vectorizer,
  combinedObj,   \* the object at MODEL_S3_KEY, or Absent
  reads,         \* get_object calls load_model has made
  returned,      \* outcome of each load_model call so far, oldest first
  lam            \* lambda_handler: its event, position, locals and response

vars == <<ts, tries, pc, tmp, s3, execTime, valObj, rawObj, predLogs, listOutage,
          reference_df, current_df, log_errors, d_ref, d_cur, all_passed, selector, g_ref, g_cur,
          modelObjs, lambdaFn, metrics, result, dq, mp, lh,
          clock, evaluated, trained,
          model, dict_vectorizer, combinedObj, reads, returned, lam>>

epochVars == <<clock, evaluated, trained>>
\* what no step of a monitoring task changes
lambdaVars == <<model, dict_vectorizer, combinedObj, reads, returned, lam>>
outside == <<epochVars, lambdaVars>>
world == <<execTime, valObj, rawObj, predLogs, listOutage, modelObjs, lambdaFn, outside>>
sched == <<ts, tries, pc>>
gmdLocals == <<reference_df, current_df, log_errors>>
driftLocals == <<d_ref, d_cur, all_passed, selector>>
reportLocals == <<g_ref, g_cur>>
checkVars == <<metrics, result, dq, mp, lh>>


\* ------------------------------------------------------ datasets (pandas)
\* str() of a location identifier, as astype(str) renders it
ToStr(n) ==
  CASE n = 0 -> "0" [] n = 1 -> "1" [] n = 2 -> "2" [] n = 3 -> "3" [] OTHER -> "n"

\* pd.DataFrame(val_dicts) with the column target := y_val
ReferenceFromVal(obj) ==
  [i \in 1..Len(obj.val_dicts) |->
     [PULocationID |-> obj.val_dicts[i].PULocationID,
      DOLocationID |-> obj.val_dicts[i].DOLocationID,
      trip_distance |-> obj.val_dicts[i].trip_distance,
      target |-> obj.y_val[i]]]

\* duration in minutes of a raw trip record
DurationOf(row) == row.tpep_dropoff_datetime - row.tpep_pickup_datetime

\* (variant) only trips shorter than a minute are dropped
KeepsDurationNoUpper(row) == DurationOf(row) >= MinDuration

\* df[(df.duration >= 1) & (df.duration <= 60)]
KeepsDuration(row) == DurationOf(row) >= MinDuration /\ DurationOf(row) <= MaxDuration

\* the fallback: clean the raw dataset and keep features + target
ReferenceFromRaw(raw) ==
  LET kept == SelectSeq(raw, KeepsDuration)
  IN [i \in 1..Len(kept) |->
        [PULocationID |-> ToStr(kept[i].PULocationID),
         DOLocationID |-> ToStr(kept[i].DOLocationID),
         trip_distance |-> kept[i].trip_distance,
         target |-> DurationOf(kept[i])]]

\* calendar-day partition of a timestamp given in hours
DayOf(t) == t \div HoursPerDay

\* (variant) the row is appended before predicted_duration is looked up
RECURSIVE RowsOfLogsAppendFirst(_)
RowsOfLogsAppendFirst(objs) ==
  IF objs = <<>> THEN <<>>
  ELSE LET o == Head(objs)
       IN (IF o.kind \in {"ok", "no_prediction"}
           THEN <<[PULocationID |-> o.features.PULocationID,
                   DOLocationID |-> o.features.DOLocationID,
                   trip_distance |-> o.features.trip_distance,
                   predicted_duration |-> o.predicted_duration]>>
           ELSE <<>>) \o RowsOfLogsAppendFirst(Tail(objs))

\* rows appended to current_data_list for the objects of one listing
RECURSIVE RowsOfLogs(_)
RowsOfLogs(objs) ==
  IF objs = <<>> THEN <<>>
  ELSE LET o == Head(objs)
       IN (IF o.kind = "ok"
           THEN <<[PULocationID |-> o.features.PULocationID,
                   DOLocationID |-> o.features.DOLocationID,
                   trip_distance |-> o.features.trip_distance,
                   predicted_duration |-> o.predicted_duration]>>
           ELSE <<>>) \o RowsOfLogs(Tail(objs))

\* rows collected by the iteration hours_back = k
RowsOfHour(r, k) ==
  LET d == DayOf(execTime[r] - k)
  IN IF d \in listOutage THEN <<>> ELSE RowsOfLogs(predLogs[d])

\* current_data_list after the iterations hours_back = 0 .. k-1
RECURSIVE CurrentDataList(_, _)
CurrentDataList(r, k) ==
  IF k = 0 THEN <<>> ELSE CurrentDataList(r, k - 1) \o RowsOfHour(r, k - 1)

\* lines 489-491: one line is printed for every object whose read, parse or
\* field lookup raised
RECURSIVE ErrorsOfLogs(_)
ErrorsOfLogs(objs) ==
  IF objs = <<>> THEN 0
  ELSE (IF Head(objs).kind = "ok" THEN 0 ELSE 1) + ErrorsOfLogs(Tail(objs))

\* lines printed by the iteration hours_back = k
ErrorsOfHour(r, k) ==
  LET d == DayOf(execTime[r] - k)
  IN IF d \in listOutage THEN 0 ELSE ErrorsOfLogs(predLogs[d])

\* lines printed by the iterations hours_back = 0 .. k-1
RECURSIVE ErrorLines(_, _)
ErrorLines(r, k) ==
  IF k = 0 THEN 0 ELSE ErrorLines(r, k - 1) + ErrorsOfHour(r, k - 1)

\* pd.DataFrame(current_data_list).rename(columns={'predicted_duration': 'target'})
RenameTarget(rows) ==
  [i \in 1..Len(rows) |->
     [PULocationID |-> rows[i].PULocationID,
      DOLocationID |-> rows[i].DOLocationID,
      trip_distance |-> rows[i].trip_distance,
      target |-> rows[i].predicted_duration]]

\* (variant) an empty frame when no prediction log was collected
CurrentFrameEmptyFallback(lst, ref) ==
  IF lst # <<>> THEN RenameTarget(lst) ELSE <<>>

\* current_df as chosen by "if current_data_list: ... else: ..."
CurrentFrame(lst, ref) ==
  IF lst # <<>> THEN RenameTarget(lst) ELSE ref

\* ------------------------------------------- metrics sink (CloudWatch)
ShiftDays == 730      \* timedelta(days=730)
TrainShiftDays == 730 \* timedelta(days=730) of the training workflow

\* the data date a run works on, as the day it falls on
DataDate(r) == DayOf(execTime[r]) - ShiftDays

\* os.environ.get('LAMBDA_FUNCTION_NAME', ...)
FunctionName == "taxi-ride-duration-prediction"

QualityNamespace == "TaxiMLOps/DataQuality"
PerformanceNamespace == "TaxiMLOps/ModelPerformance"
HealthNamespace == "TaxiMLOps/LambdaHealth"

\* keys of the quality_metrics dict, in insertion order
QualityMetricNames ==
  <<"total_records", "null_pickup_locations", "null_dropoff_locations",
    "null_trip_distance", "zero_trip_distance", "negative_trip_distance",
    "mean_trip_distance", "std_trip_distance", "mean_duration", "std_duration",
    "outlier_duration_short", "outlier_duration_long", "data_completeness_score">>

\* keys of the performance_metrics dict, in insertion order
PerformanceMetricNames ==
  <<"rmse", "mae", "r2_score", "prediction_mean", "prediction_std",
    "actual_mean", "actual_std">>

\* the two MetricData entries of the health checker's single call
HealthMetricNames == <<"error_rate_percentage", "health_check_passed">>

QualityFailed == "data_quality_check_failed"
PerformanceFailed == "performance_monitoring_failed"

Range(sq) == {sq[i] : i \in 1..Len(sq)}

\* a point's namespace, metric name and dimension value
QualityKey(r, name) == <<QualityNamespace, name, DataDate(r)>>
PerformanceKey(r, name) == <<PerformanceNamespace, name, DataDate(r)>>
HealthKey(name) == <<HealthNamespace, name, FunctionName>>

MetricKeys ==
  {QualityKey(r, n) : r \in Runs, n \in Range(QualityMetricNames) \cup {QualityFailed}}
  \cup {PerformanceKey(r, n) : r \in Runs,
                               n \in Range(PerformanceMetricNames) \cup {PerformanceFailed}}
  \cup {HealthKey(n) : n \in Range(HealthMetricNames)}

\* put_metric_data accepted one point for each key of ks
Accepted(ks) == [k \in MetricKeys |-> IF k \in ks THEN metrics[k] + 1 ELSE metrics[k]]

\* locals of the checkers when an attempt starts
FreshQuality ==
  [df |-> Unset, quality_metrics |-> Unset, score |-> Unset, i |-> 0, counter |-> "none"]
FreshPerformance ==
  [model_exists |-> Unset, val |-> Unset, performance_metrics |-> Unset, i |-> 0,
   counter |-> "none"]
FreshHealth == [function_status |-> Unset, total_invocations |-> Unset,
                total_errors |-> Unset, health_report |-> Unset, metric_data |-> Unset]

\* --------------------------------------------------- calendar (datetime)
\* day 0 of the model's time axis is 2023-06-29, counted from 1970-01-01:
\* the first scheduled run, at day 2, falls on start_date 2023-07-01
OriginDay == 19537
DaysToCivilEra == 719468   \* days from 0000-03-01 to 1970-01-01
DaysPerEra == 146097       \* days of 400 Gregorian years

\* year, month and day of the date z days after 1970-01-01 in the proleptic
\* Gregorian calendar, as datetime's year, month and day attributes give them
CivilOf(z) ==
  LET zz == z + DaysToCivilEra
      era == zz \div DaysPerEra
      doe == zz - era * DaysPerEra
      yoe == (doe - doe \div 1460 + doe \div 36524 - doe \div 146096) \div 365
      doy == doe - (365 * yoe + yoe \div 4 - yoe \div 100)
      mth == (5 * doy + 2) \div 153
      m == IF mth < 10 THEN mth + 3 ELSE mth - 9
  IN [year |-> yoe + era * 400 + (IF m <= 2 THEN 1 ELSE 0),
      month |-> m,
      day |-> doy - (153 * mth + 2) \div 5 + 1]

\* execution_date - timedelta(days=n), both in hours of the model's time axis
MinusDays(t, n) == t - n * HoursPerDay

\* the datetime that stands at hour t of the model's time axis
DateOf(t) == CivilOf(OriginDay + DayOf(t))

\* (variant) the data date is taken back from the wall clock
MonitoringEpochFromClock(execution_date) ==
  LET data_date == DateOf(MinusDays(clock, ShiftDays))
  IN <<data_date.year, data_date.month>>

\* get_data_date_from_context of the monitoring workflow: year and month
MonitoringEpoch(execution_date) ==
  LET data_date == DateOf(MinusDays(execution_date, ShiftDays))
  IN <<data_date.year, data_date.month>>

\* (variant) the training workflow goes back two calendar years of 365 days
\* and one leap day
TrainingEpochLeap(execution_date) ==
  LET data_date == DateOf(MinusDays(execution_date, TrainShiftDays + 1))
  IN <<data_date.year, data_date.month>>

\* get_data_date_from_context of the training workflow: year and month
TrainingEpoch(execution_date) ==
  LET data_date == DateOf(MinusDays(execution_date, TrainShiftDays))
  IN <<data_date.year, data_date.month>>

\* f'models/{year}-{month:02d}/model.pkl'
ModelKeyOf(epoch) == <<"models", epoch[1], epoch[2], "model.pkl">>

\* ------------------------------------------------- scheduler (Airflow)
Terminal == {"success", "failed", "upstream_failed", "skipped"}

\* (variant) a failed attempt is always retried
StateAlwaysRetry(n) == "up_for_retry"

\* state of a task instance after an attempt raised
StateAfterFailure(n) == IF n <= Retries THEN "up_for_retry" ELSE "failed"

\* the task instance's attempt ends with an unhandled exception
Raise(r, t) ==
  /\ ts' = [ts EXCEPT ![r][t] = StateAfterFailure(tries[r][t])]
  /\ pc' = [pc EXCEPT ![r][t] = "idle"]
  /\ UNCHANGED tries

\* the task instance's attempt returns
Succeed(r, t) ==
  /\ ts' = [ts EXCEPT ![r][t] = "success"]
  /\ pc' = [pc EXCEPT ![r][t] = "idle"]
  /\ UNCHANGED tries

\* trigger rule all_success: every upstream task instance succeeded
Runnable(r, t) ==
  /\ ts[r][t] \in {"none", "up_for_retry"}
  /\ \A u \in Upstream(t) : ts[r][u] = "success"

\* the executor starts an attempt of task t of run r
Start(r, t) ==
  /\ Runnable(r, t)
  /\ tries[r][t] < TryCap
  /\ ts' = [ts EXCEPT ![r][t] = "running"]
  /\ tries' = [tries EXCEPT ![r][t] = @ + 1]
  /\ pc' = [pc EXCEPT ![r][t] = FirstStep(t)]
  /\ reference_df' = IF t = "get_monitoring_data" THEN [reference_df EXCEPT ![r] = Unset] ELSE reference_df
  /\ current_df' = IF t = "get_monitoring_data" THEN [current_df EXCEPT ![r] = Unset] ELSE current_df
  /\ log_errors' = IF t = "get_monitoring_data" THEN [log_errors EXCEPT ![r] = 0] ELSE log_errors
  /\ d_ref' = IF t = "run_drift_check" THEN [d_ref EXCEPT ![r] = Unset] ELSE d_ref
  /\ d_cur' = IF t = "run_drift_check" THEN [d_cur EXCEPT ![r] = Unset] ELSE d_cur
  /\ all_passed' = IF t = "run_drift_check" THEN [all_passed EXCEPT ![r] = Unset] ELSE all_passed
  /\ g_ref' = IF t = "generate_drift_report" THEN [g_ref EXCEPT ![r] = Unset] ELSE g_ref
  /\ g_cur' = IF t = "generate_drift_report" THEN [g_cur EXCEPT ![r] = Unset] ELSE g_cur
  /\ dq' = IF t = "check_data_quality" THEN [dq EXCEPT ![r] = FreshQuality] ELSE dq
  /\ mp' = IF t = "check_model_performance" THEN [mp EXCEPT ![r] = FreshPerformance] ELSE mp
  /\ lh' = IF t = "check_lambda_health" THEN [lh EXCEPT ![r] = FreshHealth] ELSE lh
  /\ UNCHANGED <<tmp, s3, world, selector, metrics, result>>

\* a task one of whose upstream tasks failed is never run
MarkUpstreamFailed(r, t) ==
  /\ ts[r][t] = "none"
  /\ \E u \in Upstream(t) : ts[r][u] \in {"failed", "upstream_failed"}
  /\ ts' = [ts EXCEPT ![r][t] = "upstream_failed"]
  /\ UNCHANGED <<tries, pc, tmp, s3, world, gmdLocals, driftLocals, reportLocals>>
  /\ UNCHANGED checkVars

\* the three checkers: an attempt either returns or raises
CheckerReturns(r, t) ==
  /\ t \in Checkers
  /\ ts[r][t] = "running"
  /\ Succeed(r, t)
  /\ UNCHANGED <<tmp, s3, world, gmdLocals, driftLocals, reportLocals>>
  /\ UNCHANGED checkVars

CheckerRaises(r, t) ==
  /\ t \in Checkers
  /\ ts[r][t] = "running"
  /\ Raise(r, t)
  /\ UNCHANGED <<tmp, s3, world, gmdLocals, driftLocals, reportLocals>>
  /\ UNCHANGED checkVars

\* trigger_alert / end_task: print and return
SinkReturns(r, t) ==
  /\ t \in Sinks
  /\ ts[r][t] = "running"
  /\ Succeed(r, t)
  /\ UNCHANGED <<tmp, s3, world, gmdLocals, driftLocals, reportLocals>>
  /\ UNCHANGED checkVars


\* --------------------------------------------------- get_monitoring_data
\* lines 433-449, 464-495, 517-519: where the build goes when the downloads of
\* the validation split and of the raw dataset fail (valDown, rawDown) or not:
\* it raises when neither source of the Reference loads; the loop over the
\* prediction logs lets no exception out
GmdBuildOutcome(r, valDown, rawDown) ==
  IF (valObj[r] # Absent /\ ~valDown) \/ (rawObj[r] # Absent /\ ~rawDown)
  THEN "write_ref" ELSE "raise"

\* lines 429-502: build reference_df and current_df; the two downloads may
\* raise for reasons other than a missing object (valDown, rawDown). The
\* scratch copies /tmp/reference_data.pkl and /tmp/raw_data.parquet are written
\* and read inside this step.
GmdBuild(r) ==
  /\ ts[r]["get_monitoring_data"] = "running"
  /\ pc[r]["get_monitoring_data"] = "build"
  /\ \E valDown, rawDown \in BOOLEAN :
       LET valLoaded == valObj[r] # Absent /\ ~valDown
       IN IF GmdBuildOutcome(r, valDown, rawDown) = "write_ref"
          THEN LET ref == IF valLoaded THEN ReferenceFromVal(ValueOf(valObj[r]))
                          ELSE ReferenceFromRaw(ValueOf(rawObj[r]))
               IN /\ reference_df' = [reference_df EXCEPT ![r] = Some(ref)]
                  /\ current_df' = [current_df EXCEPT ![r] =
                                      Some(CurrentFrame(CurrentDataList(r, WindowHours), ref))]
                  /\ log_errors' = [log_errors EXCEPT ![r] = ErrorLines(r, WindowHours)]
                  /\ pc' = [pc EXCEPT ![r]["get_monitoring_data"] = "write_ref"]
                  /\ UNCHANGED <<ts, tries>>
          ELSE /\ Raise(r, "get_monitoring_data")
               /\ UNCHANGED gmdLocals
  /\ UNCHANGED <<tmp, s3, world, driftLocals, reportLocals>>
  /\ UNCHANGED checkVars

\* line 505: reference_df.to_pickle('/tmp/reference_data_drift.pkl')
GmdWriteRef(r) ==
  /\ ts[r]["get_monitoring_data"] = "running"
  /\ pc[r]["get_monitoring_data"] = "write_ref"
  /\ tmp' = [tmp EXCEPT ![RefFile] = reference_df[r]]
  /\ pc' = [pc EXCEPT ![r]["get_monitoring_data"] = "write_cur"]
  /\ UNCHANGED <<ts, tries, s3, world, gmdLocals, driftLocals, reportLocals>>
  /\ UNCHANGED checkVars

\* lines 506-515: current_df.to_pickle('/tmp/current_data_drift.pkl'), return
GmdWriteCur(r) ==
  /\ ts[r]["get_monitoring_data"] = "running"
  /\ pc[r]["get_monitoring_data"] = "write_cur"
  /\ tmp' = [tmp EXCEPT ![CurFile] = current_df[r]]
  /\ Succeed(r, "get_monitoring_data")
  /\ UNCHANGED <<s3, world, gmdLocals, driftLocals, reportLocals>>
  /\ UNCHANGED checkVars

\* ------------------------------------------------------- run_drift_check
\* json.dump of the suite result: the summary's all_passed as JSON text
JsonDump(b) == IF b THEN "true" ELSE "false"

\* json.load of a stored result: the summary's all_passed
JsonLoad(txt) == txt = "true"

\* (variant) the two branches exchanged
BranchSelectorSwapped(passed) == IF passed THEN "trigger_alert" ELSE "end_task"

\* lines 567-570: the task id returned for the branch
BranchSelector(passed) == IF passed THEN "end_task" ELSE "trigger_alert"

\* (variant) a plain operator: nothing is skipped
SkipNothing(r, chosen) ==
  [t \in Tasks |-> IF t = "run_drift_check" THEN "success" ELSE ts[r][t]]

\* BranchPythonOperator: direct downstream tasks not selected are skipped
SkipSiblings(r, chosen) ==
  [t \in Tasks |->
     IF t \in Downstream("run_drift_check") /\ t # chosen THEN "skipped"
     ELSE IF t = "run_drift_check" THEN "success"
     ELSE ts[r][t]]

\* the locals of run_drift_check are gone once an attempt has raised
DriftLocalsDropped(r) ==
  /\ d_ref' = [d_ref EXCEPT ![r] = Unset]
  /\ d_cur' = [d_cur EXCEPT ![r] = Unset]
  /\ all_passed' = [all_passed EXCEPT ![r] = Unset]

\* line 525: pd.read_pickle('/tmp/reference_data_drift.pkl')
DriftReadRef(r) ==
  /\ ts[r]["run_drift_check"] = "running"
  /\ pc[r]["run_drift_check"] = "read_ref"
  /\ IF tmp[RefFile] = Absent
     THEN /\ Raise(r, "run_drift_check")
          /\ UNCHANGED d_ref
     ELSE /\ d_ref' = [d_ref EXCEPT ![r] = tmp[RefFile]]
          /\ pc' = [pc EXCEPT ![r]["run_drift_check"] = "read_cur"]
          /\ UNCHANGED <<ts, tries>>
  /\ UNCHANGED <<tmp, s3, world, gmdLocals, d_cur, all_passed, selector, reportLocals>>
  /\ UNCHANGED checkVars

\* line 526: pd.read_pickle('/tmp/current_data_drift.pkl')
DriftReadCur(r) ==
  /\ ts[r]["run_drift_check"] = "running"
  /\ pc[r]["run_drift_check"] = "read_cur"
  /\ IF tmp[CurFile] = Absent
     THEN /\ Raise(r, "run_drift_check")
          /\ d_ref' = [d_ref EXCEPT ![r] = Unset]
          /\ UNCHANGED d_cur
     ELSE /\ d_cur' = [d_cur EXCEPT ![r] = tmp[CurFile]]
          /\ pc' = [pc EXCEPT ![r]["run_drift_check"] = "run_suite"]
          /\ UNCHANGED <<ts, tries, d_ref>>
  /\ UNCHANGED <<tmp, s3, world, gmdLocals, all_passed, selector, reportLocals>>
  /\ UNCHANGED checkVars

\* lines 529-552: run the test suite (its verdict is the library's), keep
\* all_passed, dump the result to /tmp/drift_test_results.json
DriftRunSuite(r) ==
  /\ ts[r]["run_drift_check"] = "running"
  /\ pc[r]["run_drift_check"] = "run_suite"
  /\ \E verdict \in BOOLEAN :
       /\ all_passed' = [all_passed EXCEPT ![r] = Some(verdict)]
       /\ tmp' = [tmp EXCEPT ![ResultsFile] = Some(JsonDump(verdict))]
  /\ pc' = [pc EXCEPT ![r]["run_drift_check"] = "upload"]
  /\ UNCHANGED <<ts, tries, s3, world, gmdLocals, d_ref, d_cur, selector, reportLocals>>
  /\ UNCHANGED checkVars

\* (variant) the result is uploaded only when a test failed
DriftUploadOnFailureOnly(r) ==
  /\ ts[r]["run_drift_check"] = "running"
  /\ pc[r]["run_drift_check"] = "upload"
  /\ \E storeDown \in BOOLEAN :
       IF all_passed[r] = Some(TRUE)
       THEN /\ pc' = [pc EXCEPT ![r]["run_drift_check"] = "cleanup"]
            /\ UNCHANGED <<ts, tries, s3, d_ref, d_cur, all_passed>>
       ELSE IF storeDown \/ tmp[ResultsFile] = Absent
       THEN /\ Raise(r, "run_drift_check")
            /\ DriftLocalsDropped(r)
            /\ UNCHANGED s3
       ELSE /\ s3' = [s3 EXCEPT ![ResultsKey(r)] = tmp[ResultsFile]]
            /\ pc' = [pc EXCEPT ![r]["run_drift_check"] = "cleanup"]
            /\ UNCHANGED <<ts, tries, d_ref, d_cur, all_passed>>
  /\ UNCHANGED <<tmp, world, gmdLocals, selector, reportLocals>>
  /\ UNCHANGED checkVars

\* lines 555-560: upload_file('/tmp/drift_test_results.json', bucket, results_key)
DriftUpload(r) ==
  /\ ts[r]["run_drift_check"] = "running"
  /\ pc[r]["run_drift_check"] = "upload"
  /\ \E storeDown \in BOOLEAN :
       IF storeDown \/ tmp[ResultsFile] = Absent
       THEN /\ Raise(r, "run_drift_check")
            /\ DriftLocalsDropped(r)
            /\ UNCHANGED s3
       ELSE /\ s3' = [s3 EXCEPT ![ResultsKey(r)] = tmp[ResultsFile]]
            /\ pc' = [pc EXCEPT ![r]["run_drift_check"] = "cleanup"]
            /\ UNCHANGED <<ts, tries, d_ref, d_cur, all_passed>>
  /\ UNCHANGED <<tmp, world, gmdLocals, selector, reportLocals>>
  /\ UNCHANGED checkVars

\* lines 562-570: os.remove('/tmp/drift_test_results.json'), return the branch
DriftReturn(r) ==
  /\ ts[r]["run_drift_check"] = "running"
  /\ pc[r]["run_drift_check"] = "cleanup"
  /\ IF tmp[ResultsFile] = Absent
     THEN /\ Raise(r, "run_drift_check")
          /\ DriftLocalsDropped(r)
          /\ UNCHANGED <<tmp, selector>>
     ELSE /\ tmp' = [tmp EXCEPT ![ResultsFile] = Absent]
          /\ selector' = [selector EXCEPT ![r] = BranchSelector(ValueOf(all_passed[r]))]
          /\ ts' = [ts EXCEPT ![r] = SkipSiblings(r, BranchSelector(ValueOf(all_passed[r])))]
          /\ pc' = [pc EXCEPT ![r]["run_drift_check"] = "idle"]
          /\ d_ref' = [d_ref EXCEPT ![r] = Unset]
          /\ d_cur' = [d_cur EXCEPT ![r] = Unset]
          /\ UNCHANGED <<tries, all_passed>>
  /\ UNCHANGED <<s3, world, gmdLocals, reportLocals>>
  /\ UNCHANGED checkVars


\* ------------------------------------------------- generate_drift_report
\* the rendered report of a snapshot pair
RenderReport(ref, cur) == <<"html", ref, cur>>

\* the locals of generate_drift_report are gone once an attempt has ended
ReportLocalsDropped(r) ==
  /\ g_ref' = [g_ref EXCEPT ![r] = Unset]
  /\ g_cur' = [g_cur EXCEPT ![r] = Unset]

\* line 580: pd.read_pickle('/tmp/reference_data_drift.pkl')
ReportReadRef(r) ==
  /\ ts[r]["generate_drift_report"] = "running"
  /\ pc[r]["generate_drift_report"] = "read_ref"
  /\ IF tmp[RefFile] = Absent
     THEN /\ Raise(r, "generate_drift_report")
          /\ UNCHANGED g_ref
     ELSE /\ g_ref' = [g_ref EXCEPT ![r] = tmp[RefFile]]
          /\ pc' = [pc EXCEPT ![r]["generate_drift_report"] = "read_cur"]
          /\ UNCHANGED <<ts, tries>>
  /\ UNCHANGED <<tmp, s3, world, gmdLocals, driftLocals, g_cur>>
  /\ UNCHANGED checkVars

\* line 581: pd.read_pickle('/tmp/current_data_drift.pkl')
ReportReadCur(r) ==
  /\ ts[r]["generate_drift_report"] = "running"
  /\ pc[r]["generate_drift_report"] = "read_cur"
  /\ IF tmp[CurFile] = Absent
     THEN /\ Raise(r, "generate_drift_report")
          /\ g_ref' = [g_ref EXCEPT ![r] = Unset]
          /\ UNCHANGED g_cur
     ELSE /\ g_cur' = [g_cur EXCEPT ![r] = tmp[CurFile]]
          /\ pc' = [pc EXCEPT ![r]["generate_drift_report"] = "render"]
          /\ UNCHANGED <<ts, tries, g_ref>>
  /\ UNCHANGED <<tmp, s3, world, gmdLocals, driftLocals>>
  /\ UNCHANGED checkVars

\* lines 584-600: run the report and save it to /tmp/drift_report.html
ReportRender(r) ==
  /\ ts[r]["generate_drift_report"] = "running"
  /\ pc[r]["generate_drift_report"] = "render"
  /\ tmp' = [tmp EXCEPT ![HtmlFile] = Some(RenderReport(g_ref[r], g_cur[r]))]
  /\ pc' = [pc EXCEPT ![r]["generate_drift_report"] = "upload"]
  /\ UNCHANGED <<ts, tries, s3, world, gmdLocals, driftLocals, reportLocals>>
  /\ UNCHANGED checkVars

\* lines 603-608: upload_file('/tmp/drift_report.html', bucket, report_key)
ReportUpload(r) ==
  /\ ts[r]["generate_drift_report"] = "running"
  /\ pc[r]["generate_drift_report"] = "upload"
  /\ \E storeDown \in BOOLEAN :
       IF storeDown \/ tmp[HtmlFile] = Absent
       THEN /\ Raise(r, "generate_drift_report")
            /\ ReportLocalsDropped(r)
            /\ UNCHANGED s3
       ELSE /\ s3' = [s3 EXCEPT ![ReportKey(r)] = tmp[HtmlFile]]
            /\ pc' = [pc EXCEPT ![r]["generate_drift_report"] = "remove_ref"]
            /\ UNCHANGED <<ts, tries, reportLocals>>
  /\ UNCHANGED <<tmp, world, gmdLocals, driftLocals>>
  /\ UNCHANGED checkVars

\* os.remove(f) followed by the step nxt; raises when f does not exist
ReportRemove(r, f, here, nxt) ==
  /\ ts[r]["generate_drift_report"] = "running"
  /\ pc[r]["generate_drift_report"] = here
  /\ IF tmp[f] = Absent
     THEN /\ Raise(r, "generate_drift_report")
          /\ ReportLocalsDropped(r)
          /\ UNCHANGED tmp
     ELSE /\ tmp' = [tmp EXCEPT ![f] = Absent]
          /\ IF nxt = "return"
             THEN /\ Succeed(r, "generate_drift_report")
                  /\ ReportLocalsDropped(r)
             ELSE /\ pc' = [pc EXCEPT ![r]["generate_drift_report"] = nxt]
                  /\ UNCHANGED <<ts, tries, reportLocals>>
  /\ UNCHANGED <<s3, world, gmdLocals, driftLocals>>
  /\ UNCHANGED checkVars

\* line 611: os.remove('/tmp/reference_data_drift.pkl')
ReportRemoveRef(r) == ReportRemove(r, RefFile, "remove_ref", "remove_cur")

\* line 612: os.remove('/tmp/current_data_drift.pkl')
ReportRemoveCur(r) == ReportRemove(r, CurFile, "remove_cur", "remove_html")

\* lines 613-617: os.remove('/tmp/drift_report.html'), return
ReportRemoveHtml(r) == ReportRemove(r, HtmlFile, "remove_html", "return")

\* ------------------------------------------------------------ initial state
\* the stored validation split of run r's epoch: one row, different per run
ValSplitOf(r) ==
  [val_dicts |-> <<[PULocationID |-> "1", DOLocationID |-> "2", trip_distance |-> r]>>,
   y_val |-> <<10 + r>>]

\* the raw dataset of run r's epoch
RawOf(r) ==
  <<[PULocationID |-> 1, DOLocationID |-> 2, trip_distance |-> r,
     tpep_pickup_datetime |-> 0, tpep_dropoff_datetime |-> 10 + r]>>

\* @daily: run r is triggered at midnight of day r + 1
ScheduledTime(r) == (r + 1) * HoursPerDay

Days == 0..(NumRuns + 1)

InitSched ==
  /\ ts = [r \in Runs |-> [t \in Tasks |-> "none"]]
  /\ tries = [r \in Runs |-> [t \in Tasks |-> 0]]
  /\ pc = [r \in Runs |-> [t \in Tasks |-> "idle"]]
  /\ tmp = [f \in TmpFiles |-> Absent]
  /\ s3 = [k \in StoreKeys |-> Absent]
  /\ reference_df = [r \in Runs |-> Unset]
  /\ current_df = [r \in Runs |-> Unset]
  /\ log_errors = [r \in Runs |-> 0]
  /\ d_ref = [r \in Runs |-> Unset]
  /\ d_cur = [r \in Runs |-> Unset]
  /\ all_passed = [r \in Runs |-> Unset]
  /\ selector = [r \in Runs |-> "none"]
  /\ g_ref = [r \in Runs |-> Unset]
  /\ g_cur = [r \in Runs |-> Unset]

\* the epoch of every run has a trained model with its vectorizer
ModelOf(r) == {"model.pkl", "dv.pkl"}

\* the inference function is deployed, was invoked and made no error
FunctionOf == Some([State |-> "Active", Invocations |-> 100, Errors |-> 0])

\* the callables that call get_data_date_from_context
Resolving == Tasks \ Sinks

\* no task evaluated the epoch yet; the worker's clock stands at the trigger
InitEpochVars ==
  /\ clock = execTime[1]
  /\ evaluated = [t \in Resolving |-> <<>>]
  /\ trained = {}

\* a module-level global that holds nothing
None == <<>>

\* the combined pickle train_model uploads, in two versions; one without its
\* 'vectorizer' entry and one without its 'model' entry
CombinedObjects ==
  {[model |-> "m1", vectorizer |-> "v1"], [model |-> "m2", vectorizer |-> "v2"],
   [model |-> "m3"], [vectorizer |-> "v3"]}

\* lambda_handler is not running
IdleHandler ==
  [pc |-> "idle", event |-> <<>>, i |-> 0, loaded |-> None, processed_count |-> 0,
   logged |-> 0, defaulted |-> 0, response |-> Unset, invocations |-> 0]

\* a cold container: nothing cached, nothing read, no invocation yet
InitLambdaVars ==
  /\ model = None
  /\ dict_vectorizer = None
  /\ combinedObj = Some([model |-> "m1", vectorizer |-> "v1"])
  /\ reads = 0
  /\ returned = <<>>
  /\ lam = IdleHandler

InitOutside == InitEpochVars /\ InitLambdaVars

\* nothing was emitted or returned yet
InitCheckers ==
  /\ metrics = [k \in MetricKeys |-> 0]
  /\ result = [r \in Runs |-> [t \in Checkers |-> "none"]]
  /\ dq = [r \in Runs |-> FreshQuality]
  /\ mp = [r \in Runs |-> FreshPerformance]
  /\ lh = [r \in Runs |-> FreshHealth]
  /\ InitOutside

\* one scheduled run; its epoch has a validation split and a raw dataset,
\* no prediction log exists
Init ==
  /\ InitSched
  /\ execTime = [r \in Runs |-> ScheduledTime(r)]
  /\ valObj = [r \in Runs |-> Some(ValSplitOf(r))]
  /\ rawObj = [r \in Runs |-> Some(RawOf(r))]
  /\ predLogs = [d \in Days |-> <<>>]
  /\ listOutage = {}
  /\ modelObjs = [r \in Runs |-> ModelOf(r)]
  /\ lambdaFn = FunctionOf
  /\ InitCheckers

\* the steps of get_monitoring_data, run_drift_check and the sinks of run r
DecisionStep(r) ==
  \/ GmdBuild(r) \/ GmdWriteRef(r) \/ GmdWriteCur(r)
  \/ DriftReadRef(r) \/ DriftReadCur(r) \/ DriftRunSuite(r) \/ DriftUpload(r) \/ DriftReturn(r)
  \/ \E t \in Sinks : SinkReturns(r, t)

\* the steps of generate_drift_report of run r
ReportStep(r) ==
  \/ ReportReadRef(r) \/ ReportReadCur(r) \/ ReportRender(r) \/ ReportUpload(r)
  \/ ReportRemoveRef(r) \/ ReportRemoveCur(r) \/ ReportRemoveHtml(r)

\* one DAG run with all of its eight tasks
Next ==
  \/ \E t \in Tasks : Start(1, t)
  \/ \E t \in Tasks : MarkUpstreamFailed(1, t)
  \/ \E t \in Checkers : CheckerReturns(1, t)
  \/ \E t \in Checkers : CheckerRaises(1, t)
  \/ DecisionStep(1)
  \/ ReportStep(1)

Spec == Init /\ [][Next]_vars

\* the tasks that lead to the branch decision
DecisionTasks == {"get_monitoring_data", "run_drift_check"} \cup Sinks

\* NumRuns runs active on one worker (catchup), followed along their decision
\* tasks
NextRuns ==
  \E r \in Runs :
    \/ \E t \in DecisionTasks : Start(r, t)
    \/ \E t \in DecisionTasks : MarkUpstreamFailed(r, t)
    \/ DecisionStep(r)

SpecRuns == Init /\ [][NextRuns]_vars


\* ------------------------------- get_monitoring_data over its inputs
\* the day and the hours of day at which the assembled run is triggered
AssembleDay == 2
TriggerHours == {0, 7, 23}

\* hours of day at which a prediction log was written
LogHours == {0, 12}

\* a stored validation split of n rows
ValSplitOfLen(n) ==
  [val_dicts |-> [i \in 1..n |-> [PULocationID |-> "1", DOLocationID |-> "2", trip_distance |-> i]],
   y_val |-> [i \in 1..n |-> 10 + i]]

\* raw trip records: durations below, at and above the limits of the filter
RawRows ==
  {[PULocationID |-> 1, DOLocationID |-> 2, trip_distance |-> 1,
    tpep_pickup_datetime |-> 0, tpep_dropoff_datetime |-> d] :
     d \in {MinDuration - 1, MinDuration, MaxDuration, MaxDuration + 1}}

\* sequences over S of length at most n
SeqsUpTo(S, n) == UNION {[1..m -> S] : m \in 0..n}

\* an object under predictions/{day}/ written at hour h of that day: a
\* well-formed log, one that cannot be read or parsed, one without 'features',
\* one without 'predicted_duration'
LogObjects(day) ==
  {[kind |-> k, at |-> day * HoursPerDay + h,
    features |-> [PULocationID |-> "1", DOLocationID |-> "2",
                  trip_distance |-> day * HoursPerDay + h],
    predicted_duration |-> 15] :
     k \in {"ok", "unreadable", "no_features", "no_prediction"}, h \in LogHours}

\* the day partitions a run triggered on AssembleDay can list
WindowDays == {AssembleDay - 1, AssembleDay}

\* a run whose Reference varies and that has no prediction logs, or a run with
\* a stored validation split whose prediction logs and listing errors vary
InitAssemble ==
  /\ InitSched
  /\ modelObjs = [r \in Runs |-> ModelOf(r)]
  /\ lambdaFn = FunctionOf
  /\ \E h \in TriggerHours :
       execTime = [r \in Runs |-> IF r = 1 THEN AssembleDay * HoursPerDay + h
                                  ELSE ScheduledTime(r)]
  /\ \/ /\ \E v \in {Absent} \cup {Some(ValSplitOfLen(n)) : n \in 0..MaxRows},
              w \in {Absent} \cup {Some(x) : x \in SeqsUpTo(RawRows, MaxRows)} :
              /\ valObj = [r \in Runs |-> IF r = 1 THEN v ELSE Some(ValSplitOf(r))]
              /\ rawObj = [r \in Runs |-> IF r = 1 THEN w ELSE Some(RawOf(r))]
        /\ predLogs = [d \in Days |-> <<>>]
        /\ listOutage = {}
     \/ /\ valObj = [r \in Runs |-> IF r = 1 THEN Some(ValSplitOfLen(1)) ELSE Some(ValSplitOf(r))]
        /\ rawObj = [r \in Runs |-> IF r = 1 THEN Absent ELSE Some(RawOf(r))]
        /\ \E a \in SeqsUpTo(LogObjects(AssembleDay - 1), MaxLogs),
              b \in SeqsUpTo(LogObjects(AssembleDay), MaxLogs) :
              predLogs = [d \in Days |-> IF d = AssembleDay - 1 THEN a
                                         ELSE IF d = AssembleDay THEN b ELSE <<>>]
        /\ listOutage \in SUBSET WindowDays
  /\ InitCheckers

NextAssemble ==
  \/ Start(1, "get_monitoring_data")
  \/ GmdBuild(1)
  \/ GmdWriteRef(1)
  \/ GmdWriteCur(1)

SpecAssemble == InitAssemble /\ [][NextAssemble]_vars

\* ----------------------------------------------- check_model_performance
\* an exception reaches the except clause of the callable
Caught(r, t) ==
  /\ pc' = [pc EXCEPT ![r][t] = "handler"]
  /\ UNCHANGED <<ts, tries>>

\* the attempt goes on with step nxt
Goto(r, t, nxt) ==
  /\ pc' = [pc EXCEPT ![r][t] = nxt]
  /\ UNCHANGED <<ts, tries>>

At(r, t, here) == ts[r][t] = "running" /\ pc[r][t] = here

\* (variant) a missing model is an error like any other
PerfHeadAbsentFatal(r) ==
  /\ At(r, "check_model_performance", "head")
  /\ \E headFails \in BOOLEAN :
       IF "model.pkl" \in modelObjs[r] /\ ~headFails
       THEN /\ mp' = [mp EXCEPT ![r].model_exists = Some(TRUE)]
            /\ Goto(r, "check_model_performance", "get_val")
       ELSE /\ mp' = [mp EXCEPT ![r].model_exists = Some(FALSE)]
            /\ Caught(r, "check_model_performance")
  /\ UNCHANGED <<result, tmp, s3, world, gmdLocals, driftLocals, reportLocals, metrics, dq, lh>>

\* lines 181-189: head_object(model_key); whatever it raises means "no model"
PerfHead(r) ==
  /\ At(r, "check_model_performance", "head")
  /\ \E headFails \in BOOLEAN :
       IF "model.pkl" \in modelObjs[r] /\ ~headFails
       THEN /\ mp' = [mp EXCEPT ![r].model_exists = Some(TRUE)]
            /\ Goto(r, "check_model_performance", "get_val")
            /\ UNCHANGED result
       ELSE /\ mp' = [mp EXCEPT ![r].model_exists = Some(FALSE)]
            /\ result' = [result EXCEPT ![r]["check_model_performance"] = "skipped"]
            /\ Succeed(r, "check_model_performance")
  /\ UNCHANGED <<tmp, s3, world, gmdLocals, driftLocals, reportLocals, metrics, dq, lh>>

\* lines 193-203: download and unpickle models/{epoch}/preprocessed_data.pkl
PerfGetVal(r) ==
  /\ At(r, "check_model_performance", "get_val")
  /\ \E storeDown \in BOOLEAN :
       IF valObj[r] # Absent /\ ~storeDown
       THEN /\ tmp' = [tmp EXCEPT ![PreprocessedFile] = valObj[r]]
            /\ mp' = [mp EXCEPT ![r].val = valObj[r]]
            /\ Goto(r, "check_model_performance", "get_model")
       ELSE /\ Caught(r, "check_model_performance")
            /\ UNCHANGED <<tmp, mp>>
  /\ UNCHANGED <<s3, world, gmdLocals, driftLocals, reportLocals, metrics, result, dq, lh>>

\* download_file of one model artifact to a worker-local file
PerfDownload(r, name, file, here, nxt) ==
  /\ At(r, "check_model_performance", here)
  /\ \E storeDown \in BOOLEAN :
       IF name \in modelObjs[r] /\ ~storeDown
       THEN /\ tmp' = [tmp EXCEPT ![file] = Some(<<name, r>>)]
            /\ Goto(r, "check_model_performance", nxt)
       ELSE /\ Caught(r, "check_model_performance")
            /\ UNCHANGED tmp
  /\ UNCHANGED <<s3, world, gmdLocals, driftLocals, reportLocals, checkVars>>

\* line 206: download_file(bucket, model_key, '/tmp/model.pkl')
PerfGetModel(r) == PerfDownload(r, "model.pkl", ModelFile, "get_model", "get_dv")

\* line 207: download_file(bucket, .../dv.pkl, '/tmp/dv.pkl')
PerfGetDv(r) == PerfDownload(r, "dv.pkl", DvFile, "get_dv", "predict")

\* lines 209-230: unpickle, transform, predict, compute the seven metrics; the
\* libraries raise on an empty validation split and may raise otherwise
PerfPredict(r) ==
  /\ At(r, "check_model_performance", "predict")
  /\ \E computeFails \in BOOLEAN :
       IF Len(ValueOf(mp[r].val).val_dicts) = 0 \/ computeFails
       THEN /\ Caught(r, "check_model_performance")
            /\ UNCHANGED mp
       ELSE /\ mp' = [mp EXCEPT ![r].performance_metrics = Some(Range(PerformanceMetricNames)),
                                ![r].i = 0]
            /\ Goto(r, "check_model_performance", "emit")
  /\ UNCHANGED <<tmp, s3, world, gmdLocals, driftLocals, reportLocals, metrics, result, dq, lh>>

\* lines 233-249: one put_metric_data call per entry of performance_metrics
PerfEmit(r) ==
  /\ At(r, "check_model_performance", "emit")
  /\ \E sinkDown \in BOOLEAN :
       IF sinkDown
       THEN /\ Caught(r, "check_model_performance")
            /\ UNCHANGED <<metrics, mp>>
       ELSE /\ metrics' = Accepted({PerformanceKey(r, PerformanceMetricNames[mp[r].i + 1])})
            /\ mp' = [mp EXCEPT ![r].i = @ + 1]
            /\ Goto(r, "check_model_performance",
                    IF mp[r].i + 1 = Len(PerformanceMetricNames) THEN "write_report" ELSE "emit")
  /\ UNCHANGED <<tmp, s3, world, gmdLocals, driftLocals, reportLocals, result, dq, lh>>

\* lines 252-261: json.dump(performance_report) to /tmp/performance_report.json
PerfWriteReport(r) ==
  /\ At(r, "check_model_performance", "write_report")
  /\ tmp' = [tmp EXCEPT ![PerformanceReportFile] =
               Some([model_data_date |-> DataDate(r),
                     performance_metrics |-> ValueOf(mp[r].performance_metrics),
                     validation_samples |-> Len(ValueOf(mp[r].val).val_dicts)])]
  /\ Goto(r, "check_model_performance", "upload")
  /\ UNCHANGED <<s3, world, gmdLocals, driftLocals, reportLocals, checkVars>>

\* line 263: upload_file('/tmp/performance_report.json', bucket, report_key)
PerfUpload(r) ==
  /\ At(r, "check_model_performance", "upload")
  /\ \E storeDown \in BOOLEAN :
       IF storeDown \/ tmp[PerformanceReportFile] = Absent
       THEN /\ Caught(r, "check_model_performance")
            /\ UNCHANGED s3
       ELSE /\ s3' = [s3 EXCEPT ![PerformanceReportKey(r)] = tmp[PerformanceReportFile]]
            /\ Goto(r, "check_model_performance", "remove_val")
  /\ UNCHANGED <<tmp, world, gmdLocals, driftLocals, reportLocals, checkVars>>

\* os.remove(f) in a checker, followed by step nxt; raises when f does not exist
CheckerRemove(r, t, f, here, nxt) ==
  /\ At(r, t, here)
  /\ IF tmp[f] = Absent
     THEN /\ Caught(r, t)
          /\ UNCHANGED <<tmp, result>>
     ELSE /\ tmp' = [tmp EXCEPT ![f] = Absent]
          /\ IF nxt = "return"
             THEN /\ result' = [result EXCEPT ![r][t] = "monitored"]
                  /\ Succeed(r, t)
             ELSE /\ Goto(r, t, nxt)
                  /\ UNCHANGED result
  /\ UNCHANGED <<s3, world, gmdLocals, driftLocals, reportLocals, metrics, dq, mp, lh>>

\* lines 266-274: the four os.remove calls, then return
PerfRemoveVal(r) ==
  CheckerRemove(r, "check_model_performance", PreprocessedFile, "remove_val", "remove_model")
PerfRemoveModel(r) ==
  CheckerRemove(r, "check_model_performance", ModelFile, "remove_model", "remove_dv")
PerfRemoveDv(r) ==
  CheckerRemove(r, "check_model_performance", DvFile, "remove_dv", "remove_report")
PerfRemoveReport(r) ==
  CheckerRemove(r, "check_model_performance", PerformanceReportFile, "remove_report", "return")

\* (variant) the except clause reports a skip instead of failing
PerfHandlerSwallows(r) ==
  /\ At(r, "check_model_performance", "handler")
  /\ result' = [result EXCEPT ![r]["check_model_performance"] = "skipped"]
  /\ Succeed(r, "check_model_performance")
  /\ UNCHANGED <<tmp, s3, world, gmdLocals, driftLocals, reportLocals, metrics, dq, mp, lh>>

\* lines 276-299: the inner except re-raises, the outer one emits
\* performance_monitoring_failed; when that call raises, its exception leaves
\* the callable instead
PerfHandler(r) ==
  /\ At(r, "check_model_performance", "handler")
  /\ \E sinkDown \in BOOLEAN :
       IF sinkDown
       THEN /\ mp' = [mp EXCEPT ![r].counter = "rejected"]
            /\ Raise(r, "check_model_performance")
            /\ UNCHANGED metrics
       ELSE /\ metrics' = Accepted({PerformanceKey(r, PerformanceFailed)})
            /\ mp' = [mp EXCEPT ![r].counter = "emitted"]
            /\ Goto(r, "check_model_performance", "reraise")
  /\ UNCHANGED <<tmp, s3, world, gmdLocals, driftLocals, reportLocals, result, dq, lh>>

\* line 300: raise
PerfReraise(r) ==
  /\ At(r, "check_model_performance", "reraise")
  /\ Raise(r, "check_model_performance")
  /\ UNCHANGED <<tmp, s3, world, gmdLocals, driftLocals, reportLocals, checkVars>>

\* a run's model performance check over the artifacts its epoch may have
InitPerformance ==
  /\ InitSched
  /\ execTime = [r \in Runs |-> ScheduledTime(r)]
  /\ \E v \in {Absent} \cup {Some(ValSplitOfLen(n)) : n \in 0..MaxRows} :
       valObj = [r \in Runs |-> IF r = 1 THEN v ELSE Some(ValSplitOf(r))]
  /\ rawObj = [r \in Runs |-> Some(RawOf(r))]
  /\ predLogs = [d \in Days |-> <<>>]
  /\ listOutage = {}
  /\ \E m \in SUBSET ModelOf(1) :
       modelObjs = [r \in Runs |-> IF r = 1 THEN m ELSE ModelOf(r)]
  /\ lambdaFn = FunctionOf
  /\ InitCheckers

NextPerformance ==
  \/ Start(1, "check_model_performance")
  \/ PerfHead(1)
  \/ PerfGetVal(1)
  \/ PerfGetModel(1)
  \/ PerfGetDv(1)
  \/ PerfPredict(1)
  \/ PerfEmit(1)
  \/ PerfWriteReport(1)
  \/ PerfUpload(1)
  \/ PerfRemoveVal(1)
  \/ PerfRemoveModel(1)
  \/ PerfRemoveDv(1)
  \/ PerfRemoveReport(1)
  \/ PerfHandler(1)
  \/ PerfReraise(1)

SpecPerformance == InitPerformance /\ [][NextPerformance]_vars

\* ---------------------------------------------------- check_data_quality
\* lines 73-96: a mean and the completeness score of an empty frame are NaN,
\* a standard deviation (ddof = 1) of fewer than two rows is NaN
IsNan(df, name) ==
  \/ name \in {"mean_trip_distance", "mean_duration", "data_completeness_score"} /\ Len(df) = 0
  \/ name \in {"std_trip_distance", "std_duration"} /\ Len(df) <= 1

\* the columns whose nulls the completeness score counts
ScoredColumns == {"PULocationID", "DOLocationID", "trip_distance"}

\* a row's value in column col is null
IsNull(row, col) == "nulls" \in DOMAIN row /\ col \in row.nulls

\* df[col].isnull().sum()
NullCount(df, col) == Cardinality({i \in 1..Len(df) : IsNull(df[i], col)})

\* lines 93-95: (1 - nulls / (len(df) * 3)) * 100, in whole percent; the
\* division of 0 by 0 rows gives NaN
CompletenessScore(df) ==
  LET nulls == NullCount(df, "PULocationID") + NullCount(df, "DOLocationID")
                 + NullCount(df, "trip_distance")
      cells == Len(df) * 3
  IN IF cells = 0 THEN [nan |-> TRUE, value |-> 0]
     ELSE [nan |-> FALSE, value |-> ((cells - nulls) * 100) \div cells]

\* the quality_metrics dict: for each key whether its value is a number or NaN
QualityMetrics(df) ==
  [n \in Range(QualityMetricNames) |-> IF IsNan(df, n) THEN "nan" ELSE "number"]

\* (variant) a missing dataset is skipped, as a missing model is
QualHeadAbsentSkips(r) ==
  /\ At(r, "check_data_quality", "head")
  /\ \E storeDown \in BOOLEAN :
       IF rawObj[r] # Absent /\ ~storeDown
       THEN /\ Goto(r, "check_data_quality", "download")
            /\ UNCHANGED result
       ELSE /\ result' = [result EXCEPT ![r]["check_data_quality"] = "skipped"]
            /\ Succeed(r, "check_data_quality")
  /\ UNCHANGED <<tmp, s3, world, gmdLocals, driftLocals, reportLocals, metrics, dq, mp, lh>>

\* line 65: head_object(Bucket=bucket, Key=key)
QualHead(r) ==
  /\ At(r, "check_data_quality", "head")
  /\ \E storeDown \in BOOLEAN :
       IF rawObj[r] # Absent /\ ~storeDown
       THEN Goto(r, "check_data_quality", "download")
       ELSE Caught(r, "check_data_quality")
  /\ UNCHANGED <<tmp, s3, world, gmdLocals, driftLocals, reportLocals, checkVars>>

\* lines 68-69: download_file(bucket, key, '/tmp/monitoring_data.parquet')
QualDownload(r) ==
  /\ At(r, "check_data_quality", "download")
  /\ \E storeDown \in BOOLEAN :
       IF rawObj[r] # Absent /\ ~storeDown
       THEN /\ tmp' = [tmp EXCEPT ![MonitoringDataFile] = rawObj[r]]
            /\ Goto(r, "check_data_quality", "analyze")
       ELSE /\ Caught(r, "check_data_quality")
            /\ UNCHANGED tmp
  /\ UNCHANGED <<s3, world, gmdLocals, driftLocals, reportLocals, checkVars>>

\* lines 70-96: read the local copy and compute quality_metrics
QualAnalyze(r) ==
  /\ At(r, "check_data_quality", "analyze")
  /\ IF tmp[MonitoringDataFile] = Absent
     THEN /\ Caught(r, "check_data_quality")
          /\ UNCHANGED dq
     ELSE /\ dq' = [dq EXCEPT ![r].df = tmp[MonitoringDataFile],
                              ![r].quality_metrics =
                                 Some(QualityMetrics(ValueOf(tmp[MonitoringDataFile]))),
                              ![r].score =
                                 Some(CompletenessScore(ValueOf(tmp[MonitoringDataFile]))),
                              ![r].i = 0]
          /\ Goto(r, "check_data_quality", "emit")
  /\ UNCHANGED <<tmp, s3, world, gmdLocals, driftLocals, reportLocals, metrics, result, mp, lh>>

\* lines 99-116: one iteration of the loop over quality_metrics.items(): a NaN
\* value is passed over, any other is sent with one put_metric_data call
QualEmit(r) ==
  /\ At(r, "check_data_quality", "emit")
  /\ LET name == QualityMetricNames[dq[r].i + 1]
         nxt == IF dq[r].i + 1 = Len(QualityMetricNames) THEN "write_report" ELSE "emit"
     IN IF ValueOf(dq[r].quality_metrics)[name] = "nan"
        THEN /\ dq' = [dq EXCEPT ![r].i = @ + 1]
             /\ Goto(r, "check_data_quality", nxt)
             /\ UNCHANGED metrics
        ELSE \E sinkDown \in BOOLEAN :
               IF sinkDown
               THEN /\ Caught(r, "check_data_quality")
                    /\ UNCHANGED <<metrics, dq>>
               ELSE /\ metrics' = Accepted({QualityKey(r, name)})
                    /\ dq' = [dq EXCEPT ![r].i = @ + 1]
                    /\ Goto(r, "check_data_quality", nxt)
  /\ UNCHANGED <<tmp, s3, world, gmdLocals, driftLocals, reportLocals, result, mp, lh>>

\* lines 119-134: json.dump(quality_report) to /tmp/quality_report.json
QualWriteReport(r) ==
  /\ At(r, "check_data_quality", "write_report")
  /\ tmp' = [tmp EXCEPT ![QualityReportFile] =
               Some([data_date |-> DataDate(r),
                     quality_metrics |-> ValueOf(dq[r].quality_metrics)])]
  /\ Goto(r, "check_data_quality", "upload")
  /\ UNCHANGED <<s3, world, gmdLocals, driftLocals, reportLocals, checkVars>>

\* line 136: upload_file('/tmp/quality_report.json', bucket, report_key)
QualUpload(r) ==
  /\ At(r, "check_data_quality", "upload")
  /\ \E storeDown \in BOOLEAN :
       IF storeDown \/ tmp[QualityReportFile] = Absent
       THEN /\ Caught(r, "check_data_quality")
            /\ UNCHANGED s3
       ELSE /\ s3' = [s3 EXCEPT ![QualityReportKey(r)] = tmp[QualityReportFile]]
            /\ Goto(r, "check_data_quality", "remove_data")
  /\ UNCHANGED <<tmp, world, gmdLocals, driftLocals, reportLocals, checkVars>>

\* line 139: os.remove(temp_file)
QualRemoveData(r) ==
  CheckerRemove(r, "check_data_quality", MonitoringDataFile, "remove_data", "remove_report")

\* lines 140-145: os.remove('/tmp/quality_report.json'), return
QualRemoveReport(r) ==
  CheckerRemove(r, "check_data_quality", QualityReportFile, "remove_report", "return")

\* lines 147-166: the except clause emits data_quality_check_failed; when that
\* call raises, its exception leaves the callable instead
QualHandler(r) ==
  /\ At(r, "check_data_quality", "handler")
  /\ \E sinkDown \in BOOLEAN :
       IF sinkDown
       THEN /\ dq' = [dq EXCEPT ![r].counter = "rejected"]
            /\ Raise(r, "check_data_quality")
            /\ UNCHANGED metrics
       ELSE /\ metrics' = Accepted({QualityKey(r, QualityFailed)})
            /\ dq' = [dq EXCEPT ![r].counter = "emitted"]
            /\ Goto(r, "check_data_quality", "reraise")
  /\ UNCHANGED <<tmp, s3, world, gmdLocals, driftLocals, reportLocals, result, mp, lh>>

\* line 167: raise
QualReraise(r) ==
  /\ At(r, "check_data_quality", "reraise")
  /\ Raise(r, "check_data_quality")
  /\ UNCHANGED <<tmp, s3, world, gmdLocals, driftLocals, reportLocals, checkVars>>

\* raw trip records for the quality check: those of RawRows, one with a null
\* pickup location and one with all three scored columns null
QualityRows ==
  RawRows \cup
  {[PULocationID |-> 1, DOLocationID |-> 2, trip_distance |-> 1,
    tpep_pickup_datetime |-> 0, tpep_dropoff_datetime |-> MinDuration, nulls |-> ns] :
     ns \in {{"PULocationID"}, ScoredColumns}}

\* a run's data quality check over the raw dataset its epoch may have
InitQuality ==
  /\ InitSched
  /\ execTime = [r \in Runs |-> ScheduledTime(r)]
  /\ valObj = [r \in Runs |-> Some(ValSplitOf(r))]
  /\ \E w \in {Absent} \cup {Some(x) : x \in SeqsUpTo(QualityRows, MaxRows)} :
       rawObj = [r \in Runs |-> IF r = 1 THEN w ELSE Some(RawOf(r))]
  /\ predLogs = [d \in Days |-> <<>>]
  /\ listOutage = {}
  /\ modelObjs = [r \in Runs |-> ModelOf(r)]
  /\ lambdaFn = FunctionOf
  /\ InitCheckers

NextQuality ==
  \/ Start(1, "check_data_quality")
  \/ QualHead(1)
  \/ QualDownload(1)
  \/ QualAnalyze(1)
  \/ QualEmit(1)
  \/ QualWriteReport(1)
  \/ QualUpload(1)
  \/ QualRemoveData(1)
  \/ QualRemoveReport(1)
  \/ QualHandler(1)
  \/ QualReraise(1)

SpecQuality == InitQuality /\ [][NextQuality]_vars

\* --------------------------------------------------- check_lambda_health
\* line 358: the error rate in percent (exact for the counts the model uses)
ErrorRate(invocations, errors) ==
  IF invocations > 0 THEN (errors * 100) \div invocations ELSE 0

\* (variant) an error rate of 5 percent still counts as healthy
HealthStatusUpToFive(status, rate) ==
  IF status = "Active" /\ rate <= 5 THEN "healthy" ELSE "unhealthy"

\* line 368: 'healthy' if function_status == 'Active' and error_rate < 5
HealthStatus(status, rate) ==
  IF status = "Active" /\ rate < 5 THEN "healthy" ELSE "unhealthy"

\* line 314-317: get_function(FunctionName=function_name)
HealthGetFunction(r) ==
  /\ At(r, "check_lambda_health", "get_function")
  /\ \E apiDown \in BOOLEAN :
       IF lambdaFn # Absent /\ ~apiDown
       THEN /\ lh' = [lh EXCEPT ![r].function_status = Some(ValueOf(lambdaFn).State)]
            /\ Goto(r, "check_lambda_health", "invocations")
       ELSE /\ Caught(r, "check_lambda_health")
            /\ UNCHANGED lh
  /\ UNCHANGED <<tmp, s3, world, gmdLocals, driftLocals, reportLocals, metrics, result, dq, mp>>

\* lines 324-337, 355: get_metric_statistics for 'Invocations', summed
HealthInvocations(r) ==
  /\ At(r, "check_lambda_health", "invocations")
  /\ \E sinkDown \in BOOLEAN :
       IF sinkDown
       THEN /\ Caught(r, "check_lambda_health")
            /\ UNCHANGED lh
       ELSE /\ lh' = [lh EXCEPT ![r].total_invocations = Some(ValueOf(lambdaFn).Invocations)]
            /\ Goto(r, "check_lambda_health", "errors")
  /\ UNCHANGED <<tmp, s3, world, gmdLocals, driftLocals, reportLocals, metrics, result, dq, mp>>

\* lines 340-369: get_metric_statistics for 'Errors', summed; the health report
HealthErrors(r) ==
  /\ At(r, "check_lambda_health", "errors")
  /\ \E sinkDown \in BOOLEAN :
       IF sinkDown
       THEN /\ Caught(r, "check_lambda_health")
            /\ UNCHANGED lh
       ELSE LET inv == ValueOf(lh[r].total_invocations)
                err == ValueOf(lambdaFn).Errors
                status == ValueOf(lh[r].function_status)
            IN /\ lh' = [lh EXCEPT ![r].total_errors = Some(err),
                                   ![r].health_report =
                                      Some([function_status |-> status,
                                            total_invocations_24h |-> inv,
                                            total_errors_24h |-> err,
                                            error_rate_percentage |-> ErrorRate(inv, err),
                                            health_status |->
                                              HealthStatus(status, ErrorRate(inv, err))])]
               /\ Goto(r, "check_lambda_health", "emit")
  /\ UNCHANGED <<tmp, s3, world, gmdLocals, driftLocals, reportLocals, metrics, result, dq, mp>>

\* lines 372-398: one put_metric_data call with both health metrics
HealthEmit(r) ==
  /\ At(r, "check_lambda_health", "emit")
  /\ \E sinkDown \in BOOLEAN :
       IF sinkDown
       THEN /\ Caught(r, "check_lambda_health")
            /\ UNCHANGED <<metrics, lh>>
       ELSE LET report == ValueOf(lh[r].health_report)
            IN /\ metrics' = Accepted({HealthKey(n) : n \in Range(HealthMetricNames)})
               /\ lh' = [lh EXCEPT ![r].metric_data =
                           Some([error_rate_percentage |-> report.error_rate_percentage,
                                 health_check_passed |->
                                   IF report.health_status = "healthy" THEN 1 ELSE 0])]
               /\ Goto(r, "check_lambda_health", "write_report")
  /\ UNCHANGED <<tmp, s3, world, gmdLocals, driftLocals, reportLocals, result, dq, mp>>

\* lines 401-406: json.dump(health_report) to /tmp/health_report.json
HealthWriteReport(r) ==
  /\ At(r, "check_lambda_health", "write_report")
  /\ tmp' = [tmp EXCEPT ![HealthReportFile] = lh[r].health_report]
  /\ Goto(r, "check_lambda_health", "upload")
  /\ UNCHANGED <<s3, world, gmdLocals, driftLocals, reportLocals, checkVars>>

\* line 408: upload_file('/tmp/health_report.json', bucket, report_key)
HealthUpload(r) ==
  /\ At(r, "check_lambda_health", "upload")
  /\ \E storeDown \in BOOLEAN :
       IF storeDown \/ tmp[HealthReportFile] = Absent
       THEN /\ Caught(r, "check_lambda_health")
            /\ UNCHANGED s3
       ELSE /\ s3' = [s3 EXCEPT ![HealthReportKey(r)] = tmp[HealthReportFile]]
            /\ Goto(r, "check_lambda_health", "remove_report")
  /\ UNCHANGED <<tmp, world, gmdLocals, driftLocals, reportLocals, checkVars>>

\* lines 409-414: os.remove('/tmp/health_report.json'), return
HealthRemoveReport(r) ==
  CheckerRemove(r, "check_lambda_health", HealthReportFile, "remove_report", "return")

\* lines 416-418: print the exception and re-raise it
HealthHandler(r) ==
  /\ At(r, "check_lambda_health", "handler")
  /\ Raise(r, "check_lambda_health")
  /\ UNCHANGED <<tmp, s3, world, gmdLocals, driftLocals, reportLocals, checkVars>>

\* invocation and error sums of the last 24 hours, states of the function
FunctionStates == {"Active", "Inactive"}
InvocationSums == {0, 100}
ErrorSums == {0, 4, 5}

\* a run's health check over what the platform reports about the function
InitHealth ==
  /\ InitSched
  /\ execTime = [r \in Runs |-> ScheduledTime(r)]
  /\ valObj = [r \in Runs |-> Some(ValSplitOf(r))]
  /\ rawObj = [r \in Runs |-> Some(RawOf(r))]
  /\ predLogs = [d \in Days |-> <<>>]
  /\ listOutage = {}
  /\ modelObjs = [r \in Runs |-> ModelOf(r)]
  /\ lambdaFn \in {Absent} \cup
       {Some([State |-> st, Invocations |-> inv, Errors |-> IF inv = 0 THEN 0 ELSE err]) :
          st \in FunctionStates, inv \in InvocationSums, err \in ErrorSums}
  /\ InitCheckers

NextHealth ==
  \/ Start(1, "check_lambda_health")
  \/ HealthGetFunction(1)
  \/ HealthInvocations(1)
  \/ HealthErrors(1)
  \/ HealthEmit(1)
  \/ HealthWriteReport(1)
  \/ HealthUpload(1)
  \/ HealthRemoveReport(1)
  \/ HealthHandler(1)

SpecHealth == InitHealth /\ [][NextHealth]_vars

\* ------------------------------------------------------- epoch resolver
\* time passes on the worker
ClockTick ==
  /\ clock < execTime[1] + ClockAhead
  /\ clock' = clock + 1
  /\ UNCHANGED <<sched, tmp, s3, execTime, valObj, rawObj, predLogs, listOutage,
                 modelObjs, lambdaFn, gmdLocals, driftLocals, reportLocals, checkVars,
                 evaluated, trained, lambdaVars>>

\* an attempt of task t calls get_data_date_from_context(**context)
EvalEpoch(t) ==
  /\ Len(evaluated[t]) <= Retries
  /\ evaluated' = [evaluated EXCEPT ![t] = Append(@, MonitoringEpoch(execTime[1]))]
  /\ UNCHANGED <<sched, tmp, s3, execTime, valObj, rawObj, predLogs, listOutage,
                 modelObjs, lambdaFn, gmdLocals, driftLocals, reportLocals, checkVars,
                 clock, trained, lambdaVars>>

\* train_model of the training run with the same execution_date uploads the
\* model under the epoch it evaluated (training_dag.py lines 175, 256, 261)
TrainUpload ==
  /\ trained = {}
  /\ trained' = {ModelKeyOf(TrainingEpoch(execTime[1]))}
  /\ UNCHANGED <<sched, tmp, s3, execTime, valObj, rawObj, predLogs, listOutage,
                 modelObjs, lambdaFn, gmdLocals, driftLocals, reportLocals, checkVars,
                 clock, evaluated, lambdaVars>>

\* days on which the run is triggered, from start_date on
TriggerDays == 2..(2 + MaxTriggerDay)

\* one run triggered at any hour of TriggerHours on any day of TriggerDays
InitEpoch ==
  /\ InitSched
  /\ \E d \in TriggerDays, h \in TriggerHours :
       execTime = [r \in Runs |-> IF r = 1 THEN d * HoursPerDay + h
                                  ELSE ScheduledTime(r)]
  /\ valObj = [r \in Runs |-> Some(ValSplitOf(r))]
  /\ rawObj = [r \in Runs |-> Some(RawOf(r))]
  /\ predLogs = [d \in Days |-> <<>>]
  /\ listOutage = {}
  /\ modelObjs = [r \in Runs |-> ModelOf(r)]
  /\ lambdaFn = FunctionOf
  /\ InitCheckers

NextEpoch ==
  \/ ClockTick
  \/ \E t \in Resolving : EvalEpoch(t)
  \/ TrainUpload

SpecEpoch == InitEpoch /\ [][NextEpoch]_vars

\* ------------------------------------- inference function (lambda_function.py)
monitoring ==
  <<sched, tmp, s3, execTime, valObj, rawObj, predLogs, listOutage, modelObjs, lambdaFn,
    gmdLocals, driftLocals, reportLocals, checkVars, epochVars>>

\* (variant) the cache is taken as filled as soon as the model is set
CachedModelOnly == model # None

\* line 22: model is not None and dict_vectorizer is not None
Cached == model # None /\ dict_vectorizer # None

\* load_model (lines 18-44) with get_object failing (down) or not: whether it
\* returns (ok) and which pair, the globals it leaves and the reads made
LoadModel(down) ==
  LET raised == [ok |-> FALSE, pair |-> <<None, None>>, model |-> model,
                 dict_vectorizer |-> dict_vectorizer, reads |-> reads + 1]
  IN IF Cached
     THEN [ok |-> TRUE, pair |-> <<model, dict_vectorizer>>, model |-> model,
           dict_vectorizer |-> dict_vectorizer, reads |-> reads]
     ELSE IF down \/ combinedObj = Absent THEN raised
     ELSE LET model_data == ValueOf(combinedObj)
          IN IF "model" \notin DOMAIN model_data THEN raised
             ELSE IF "vectorizer" \notin DOMAIN model_data
             THEN [raised EXCEPT !.model = Some(model_data.model)]
             ELSE [ok |-> TRUE,
                   pair |-> <<Some(model_data.model), Some(model_data.vectorizer)>>,
                   model |-> Some(model_data.model),
                   dict_vectorizer |-> Some(model_data.vectorizer),
                   reads |-> reads + 1]

\* a Kinesis record: one whose payload decodes to a ride, one whose payload is
\* not base64 of JSON, one that decodes to JSON from which no features can be
\* built (trip_distance is not a number, or the JSON is not an object)
RecordKinds == {"ride", "undecodable", "bad_distance"}

\* json.loads(base64.b64decode(...)) returns for the record
Decodes(kind) == kind # "undecodable"

\* ride_data.get and preprocess_ride return for the decoded payload
Preprocesses(kind) == kind = "ride"

\* (variant) a record counts only when its prediction log was written
ReachesCountWhenLogged(predictFails, logDown) == ~logDown

\* lines 125-130: predict_duration and log_prediction catch what they raise,
\* so processed_count += 1 is reached either way
ReachesCount(predictFails, logDown) == TRUE

\* training uploads models/latest/combined_model.pkl anew, or the object is
\* removed or damaged
StoreChanges ==
  /\ combinedObj' \in ({Absent} \cup {Some(o) : o \in CombinedObjects}) \ {combinedObj}
  /\ UNCHANGED <<monitoring, model, dict_vectorizer, reads, returned, lam>>

\* lines 99-107: lambda_handler is invoked with an event and calls load_model
HandlerInvoke ==
  /\ lam.pc = "idle"
  /\ lam.invocations < MaxInvocations
  /\ \E ev \in SeqsUpTo(RecordKinds, MaxRecords), down \in BOOLEAN :
       LET out == LoadModel(down)
       IN /\ model' = out.model
          /\ dict_vectorizer' = out.dict_vectorizer
          /\ reads' = out.reads
          /\ returned' = Append(returned, [ok |-> out.ok, pair |-> out.pair,
                                            reads |-> out.reads])
          /\ lam' = IF out.ok
                    THEN [IdleHandler EXCEPT !.pc = "loop", !.event = ev,
                                             !.loaded = Some(out.pair),
                                             !.invocations = lam.invocations + 1]
                    ELSE [IdleHandler EXCEPT !.event = ev,
                                             !.response = Some([statusCode |-> 500]),
                                             !.invocations = lam.invocations + 1]
  /\ UNCHANGED <<monitoring, combinedObj>>

\* lines 110-135: one iteration of the loop over event['Records']; the
\* prediction may raise inside predict_duration and the log write inside
\* log_prediction, both of which catch it
HandlerRecord ==
  /\ lam.pc = "loop"
  /\ lam.i < Len(lam.event)
  /\ LET kind == lam.event[lam.i + 1]
     IN IF Decodes(kind) /\ Preprocesses(kind)
        THEN \E predictFails, logDown \in BOOLEAN :
               lam' = [lam EXCEPT !.i = @ + 1,
                                  !.processed_count =
                                     IF ReachesCount(predictFails, logDown)
                                     THEN @ + 1 ELSE @,
                                  !.defaulted = IF predictFails THEN @ + 1 ELSE @,
                                  !.logged = IF logDown THEN @ ELSE @ + 1]
        ELSE lam' = [lam EXCEPT !.i = @ + 1]
  /\ UNCHANGED <<monitoring, model, dict_vectorizer, combinedObj, reads, returned>>

\* lines 137-143: the loop is over, the handler returns
HandlerReturn ==
  /\ lam.pc = "loop"
  /\ lam.i = Len(lam.event)
  /\ lam' = [lam EXCEPT !.pc = "idle",
                         !.response = Some([statusCode |-> 200,
                                            processed_count |-> lam.processed_count])]
  /\ UNCHANGED <<monitoring, model, dict_vectorizer, combinedObj, reads, returned>>

\* a container of the inference function from its cold start on
InitLambda == Init

NextLambda ==
  \/ StoreChanges
  \/ HandlerInvoke
  \/ HandlerRecord
  \/ HandlerReturn

SpecLambda == InitLambda /\ [][NextLambda]_vars

\* ==================================================================== claims
\* every task instance of run r reached a final state
RunEnded(r) == \A t \in Tasks : ts[r][t] \in Terminal

\* task t of run r was executed (an attempt of it was started)
Executed(r, t) == tries[r][t] > 0

\* C1 (as stated): in every run exactly one of the two terminal sinks executes.
C1_ExactlyOneSinkEveryRun ==
  RunEnded(1) => Cardinality({s \in Sinks : Executed(1, s)}) = 1

\* C1 (amended): a sink executes only when run_drift_check succeeded and named
\* it; the sibling is then skipped and never executed; once the run has ended,
\* the named sink has succeeded if run_drift_check succeeded, and no sink was
\* executed if it did not.
C1_SelectedSinkOnly ==
  /\ \A s \in Sinks :
       Executed(1, s) => ts[1]["run_drift_check"] = "success" /\ selector[1] = s
  /\ ts[1]["run_drift_check"] = "success" =>
       \A s \in Sinks : s # selector[1] => ts[1][s] = "skipped" /\ ~Executed(1, s)
  /\ RunEnded(1) /\ ts[1]["run_drift_check"] = "success" =>
       selector[1] \in Sinks /\ ts[1][selector[1]] = "success"
  /\ RunEnded(1) /\ ts[1]["run_drift_check"] # "success" =>
       \A s \in Sinks : ~Executed(1, s)

C1_Witness ==
  /\ RunEnded(1)
  /\ selector[1] = "trigger_alert"
  /\ ts[1]["trigger_alert"] = "success"
  /\ ts[1]["end_task"] = "skipped"

\* C2: a completed run_drift_check returned 'end_task' when all_passed was true
\* and 'trigger_alert' when it was false, and nothing else; no selector exists
\* before it completes.
C2_SelectorTotal ==
  /\ ts[1]["run_drift_check"] = "success" =>
       \/ all_passed[1] = <<TRUE>> /\ selector[1] = "end_task"
       \/ all_passed[1] = <<FALSE>> /\ selector[1] = "trigger_alert"
  /\ ts[1]["run_drift_check"] # "success" => selector[1] = "none"

C2_Witness ==
  /\ ts[1]["run_drift_check"] = "success"
  /\ all_passed[1] = <<FALSE>>
  /\ selector[1] = "trigger_alert"

\* C3 (as stated): once get_monitoring_data has completed, the snapshot files
\* keep the Reference and Current it wrote for the rest of the run.
C3_SnapshotWriteOnce ==
  ts[1]["get_monitoring_data"] = "success" =>
    tmp[RefFile] = reference_df[1] /\ tmp[CurFile] = current_df[1]

\* C4 (as stated): what run_drift_check and generate_drift_report of a run have
\* read is the snapshot written by get_monitoring_data of the same run.
C4_RunsReadOwnSnapshot ==
  \A r \in Runs :
    /\ d_ref[r] # Unset => d_ref[r] = reference_df[r]
    /\ d_cur[r] # Unset => d_cur[r] = current_df[r]
    /\ g_ref[r] # Unset => g_ref[r] = reference_df[r]
    /\ g_cur[r] # Unset => g_cur[r] = current_df[r]

\* C5: run_drift_check and generate_drift_report start only after
\* get_monitoring_data succeeded; a sink starts only after run_drift_check
\* succeeded.
C5_Ordering ==
  /\ Executed(1, "run_drift_check") => ts[1]["get_monitoring_data"] = "success"
  /\ Executed(1, "generate_drift_report") => ts[1]["get_monitoring_data"] = "success"
  /\ \A s \in Sinks : Executed(1, s) => ts[1]["run_drift_check"] = "success"

\* run_drift_check has finished while generate_drift_report has not started
C5_Witness ==
  /\ ts[1]["run_drift_check"] = "success"
  /\ ~Executed(1, "generate_drift_report")

\* the other order: generate_drift_report finished, run_drift_check not started
C5_WitnessReportFirst ==
  /\ ts[1]["generate_drift_report"] = "success"
  /\ ~Executed(1, "run_drift_check")

\* tasks whose failure C6 is about
Siblings == Checkers \cup {"generate_drift_report"}

\* an attempt of task t ends in failure in this step
FailsNow(t) == ts[1][t] = "running" /\ ts'[1][t] \in {"up_for_retry", "failed"}

\* C6: a failed task stops only its downstream tasks. No checker and not
\* get_monitoring_data is ever marked upstream_failed or skipped; a task is
\* marked upstream_failed only below a failed task; whatever its siblings did,
\* a task whose own upstream succeeded can be started; the failing attempt of a
\* checker or of generate_drift_report changes no other task's state, not the
\* snapshot, not the stored drift result and not the selector; and once the run
\* has ended after a successful run_drift_check, the selected sink succeeded.
C6_InvariantPart ==
  /\ \A t \in Checkers \cup {"get_monitoring_data"} :
       /\ ts[1][t] \notin {"upstream_failed", "skipped"}
       /\ ts[1][t] \in {"none", "up_for_retry"} => ENABLED Start(1, t)
  /\ \A t \in {"run_drift_check", "generate_drift_report"} :
       /\ ts[1][t] = "upstream_failed" => ts[1]["get_monitoring_data"] = "failed"
       /\ ts[1][t] \in {"none", "up_for_retry"} /\ ts[1]["get_monitoring_data"] = "success"
            => ENABLED Start(1, t)
  /\ \A s \in Sinks :
       /\ ts[1][s] = "upstream_failed" =>
            ts[1]["run_drift_check"] \in {"failed", "upstream_failed"}
       /\ ts[1][s] = "none" /\ ts[1]["run_drift_check"] = "success" => ENABLED Start(1, s)
  /\ RunEnded(1) /\ ts[1]["run_drift_check"] = "success" =>
       ts[1][BranchSelector(ValueOf(all_passed[1]))] = "success"

C6_ActionPart ==
  \A t \in Siblings :
    FailsNow(t) =>
      /\ \A u \in Tasks \ {t} : ts'[1][u] = ts[1][u]
      /\ tmp'[RefFile] = tmp[RefFile] /\ tmp'[CurFile] = tmp[CurFile]
      /\ s3'[ResultsKey(1)] = s3[ResultsKey(1)]
      /\ selector' = selector

\* C6: the failure of a task stops only the tasks downstream of it (the state
\* part and the step part above, in every behaviour).
C6_FailureIsolation == []C6_InvariantPart /\ [][C6_ActionPart]_vars

\* the checkers and the report generator all failed, the drift decision went through
C6_Witness ==
  /\ RunEnded(1)
  /\ \A t \in Siblings : ts[1][t] = "failed"
  /\ ts[1]["run_drift_check"] = "success"
  /\ ts[1][selector[1]] = "success"

\* the drift path failed, the three checkers ran and succeeded
C6_WitnessDriftFailed ==
  /\ RunEnded(1)
  /\ ts[1]["get_monitoring_data"] = "failed"
  /\ \A t \in Checkers : ts[1][t] = "success"

\* C7: a task is attempted at most twice; the second attempt starts only from
\* up_for_retry, which a task enters only when its running attempt fails; a task
\* that succeeded stays succeeded and is not attempted again.
C7_InvariantPart ==
  \A t \in Tasks :
    /\ tries[1][t] <= 2
    /\ ts[1][t] = "up_for_retry" => tries[1][t] = 1

C7_ActionPart ==
  \A t \in Tasks :
    /\ tries'[1][t] # tries[1][t] =>
         /\ tries'[1][t] = tries[1][t] + 1
         /\ ts'[1][t] = "running"
         /\ tries[1][t] = 0 => ts[1][t] = "none"
         /\ tries[1][t] >= 1 => ts[1][t] = "up_for_retry"
    /\ ts'[1][t] = "up_for_retry" => ts[1][t] \in {"running", "up_for_retry"}
    /\ ts[1][t] = "success" => ts'[1][t] = "success" /\ tries'[1][t] = tries[1][t]

\* C7: every task is attempted at most twice, the second time only after a
\* failed first attempt, and never again after a success (both parts above).
C7_AtMostOneRetry == []C7_InvariantPart /\ [][C7_ActionPart]_vars

\* run_drift_check succeeded on its retry
C7_Witness ==
  /\ ts[1]["run_drift_check"] = "success"
  /\ tries[1]["run_drift_check"] = 2

\* C8: a run_drift_check attempt that got past the upload, and so every one that
\* returned a selector, has written the result object of its run date, when
\* all_passed is true and when it is false.
C8_ResultPersistedBothOutcomes ==
  /\ pc[1]["run_drift_check"] = "cleanup" => s3[ResultsKey(1)] # Absent
  /\ ts[1]["run_drift_check"] = "success" /\ all_passed[1] = <<TRUE>> =>
       s3[ResultsKey(1)] # Absent
  /\ ts[1]["run_drift_check"] = "success" /\ all_passed[1] = <<FALSE>> =>
       s3[ResultsKey(1)] # Absent

C8_Witness ==
  /\ ts[1]["run_drift_check"] = "success"
  /\ all_passed[1] = <<TRUE>>
  /\ s3[ResultsKey(1)] = <<"true">>

C8_WitnessFailedSuite ==
  /\ ts[1]["run_drift_check"] = "success"
  /\ all_passed[1] = <<FALSE>>
  /\ s3[ResultsKey(1)] = <<"false">>

\* C9 (as stated): once the selected sink of a run has run, the all_passed stored
\* in the run's drift-result object is the all_passed the branch was chosen by.
C9_PersistedMatchesDecision ==
  \A r \in Runs :
    (selector[r] \in Sinks /\ ts[r][selector[r]] = "success") =>
      /\ s3[ResultsKey(r)] # Absent
      /\ JsonLoad(ValueOf(s3[ResultsKey(r)])) = ValueOf(all_passed[r])


\* none of the day partitions the 24 iterations list holds an object
ZeroLogsListed(r) ==
  \A k \in 0..(WindowHours - 1) : predLogs[DayOf(execTime[r] - k)] = <<>>

\* C10: when get_monitoring_data finds no prediction log in the partitions of
\* the trailing 24 hours, the Current it hands off is the Reference, row for row.
C10_ZeroLogsCurrentIsReference ==
  (ts[1]["get_monitoring_data"] = "success" /\ ZeroLogsListed(1)) =>
    /\ current_df[1] = reference_df[1]
    /\ tmp[RefFile] = reference_df[1]
    /\ tmp[CurFile] = tmp[RefFile]

\* a run without logs handed off a Reference with rows and the same Current
C10_Witness ==
  /\ ts[1]["get_monitoring_data"] = "success"
  /\ ZeroLogsListed(1)
  /\ Len(ValueOf(reference_df[1])) = 2
  /\ tmp[CurFile] = reference_df[1]

\* ------------------------------------------------ C11..C13: the log window
\* positions <<d, i>> of the objects stored under the day partitions
LogPositions == {p \in Days \X (1..MaxLogs) : p[2] <= Len(predLogs[p[1]])}

LogAt(p) == predLogs[p[1]][p[2]]

\* the row of Current a well-formed log stands for
RowOf(o) ==
  [PULocationID |-> o.features.PULocationID,
   DOLocationID |-> o.features.DOLocationID,
   trip_distance |-> o.features.trip_distance,
   target |-> o.predicted_duration]

\* number of rows of the frame df equal to row
CountRows(df, row) == Cardinality({i \in 1..Len(df) : df[i] = row})

\* the log was written in one of the 24 hourly buckets ending at the trigger time
InWindow(r, o) == o.at <= execTime[r] /\ o.at > execTime[r] - WindowHours

\* the log was written more than 24 hours before the trigger time, or after it
OutsideWindow(r, o) == o.at > execTime[r] \/ o.at < execTime[r] - WindowHours

\* number of stored well-formed logs of the window that stand for row
LogsInWindowFor(r, row) ==
  Cardinality({p \in LogPositions :
                 LogAt(p).kind = "ok" /\ InWindow(r, LogAt(p)) /\ RowOf(LogAt(p)) = row})

\* C11 (as stated): every well-formed prediction log of the trailing 24 hours
\* contributes exactly one row to Current, never two or more (no listing failed).
C11_OneRowPerLog ==
  (ts[1]["get_monitoring_data"] = "success" /\ listOutage = {}) =>
    \A p \in LogPositions :
      (LogAt(p).kind = "ok" /\ InWindow(1, LogAt(p))) =>
        CountRows(ValueOf(current_df[1]), RowOf(LogAt(p)))
          = LogsInWindowFor(1, RowOf(LogAt(p)))

\* C12 (as stated): every row of a Current built from logs is the row of a
\* well-formed log that was not written more than 24 hours before the trigger
\* time and not after it.
C12_RowsFromWindowOnly ==
  (ts[1]["get_monitoring_data"] = "success" /\ current_df[1] # reference_df[1]) =>
    \A i \in 1..Len(ValueOf(current_df[1])) :
      \E p \in LogPositions :
        /\ LogAt(p).kind = "ok"
        /\ RowOf(LogAt(p)) = ValueOf(current_df[1])[i]
        /\ ~OutsideWindow(1, LogAt(p))

\* number of the 24 iterations that list day partition d without an error:
\* the hours of day d among the WindowHours hours that end at the trigger
Listings(r, d) ==
  LET first == execTime[r] - (WindowHours - 1)
      lo == IF first > d * HoursPerDay THEN first ELSE d * HoursPerDay
      hi == IF execTime[r] < (d + 1) * HoursPerDay - 1
            THEN execTime[r] ELSE (d + 1) * HoursPerDay - 1
  IN IF d \in listOutage \/ hi < lo THEN 0 ELSE hi - lo + 1

WellFormedAt(p) == LogAt(p).kind = "ok"

\* well-formed objects of day partition d that stand for row
WellFormedIn(d, row) ==
  Cardinality({i \in 1..Len(predLogs[d]) :
                 predLogs[d][i].kind = "ok" /\ RowOf(predLogs[d][i]) = row})

\* objects of day partition d that are not well-formed
MalformedIn(d) ==
  Cardinality({i \in 1..Len(predLogs[d]) : predLogs[d][i].kind # "ok"})

\* rows the listings of the partitions 0..d hand over for row: one per listing
\* of a well-formed log
RECURSIVE ListedRowsUpTo(_, _, _)
ListedRowsUpTo(r, d, row) ==
  IF d < 0 THEN 0
  ELSE Listings(r, d) * WellFormedIn(d, row) + ListedRowsUpTo(r, d - 1, row)

ListedRowsFor(r, row) == ListedRowsUpTo(r, NumRuns + 1, row)

\* listings of objects that are not well-formed, over the partitions 0..d
RECURSIVE ListedMalformedUpTo(_, _)
ListedMalformedUpTo(r, d) ==
  IF d < 0 THEN 0
  ELSE Listings(r, d) * MalformedIn(d) + ListedMalformedUpTo(r, d - 1)

ListedMalformed(r) == ListedMalformedUpTo(r, NumRuns + 1)

\* get_monitoring_data is building the datasets, and goes on to hand them off
\* when the download of the validation split works
CanCompleteBuild == GmdBuildOutcome(1, FALSE, FALSE) = "write_ref"

Failed(r, t) == ts[r][t] \in {"up_for_retry", "failed"}

NoModel(r) == "model.pkl" \notin modelObjs[r]

PerformanceKeysOf(r) ==
  {PerformanceKey(r, n) : n \in Range(PerformanceMetricNames) \cup {PerformanceFailed}}

\* C14: without a trained-model artifact for the epoch, check_model_performance
\* returns a skipped result on its first attempt, emits no performance metric
\* and no failure counter, writes no performance report and never raises.
C14_NoModelSkips ==
  NoModel(1) =>
    /\ ~Failed(1, "check_model_performance")
    /\ pc[1]["check_model_performance"] \in {"idle", "head"}
    /\ tries[1]["check_model_performance"] <= 1
    /\ (Executed(1, "check_model_performance") /\ ts[1]["check_model_performance"] # "running")
         => /\ ts[1]["check_model_performance"] = "success"
            /\ result[1]["check_model_performance"] = "skipped"
    /\ \A k \in PerformanceKeysOf(1) : metrics[k] = 0
    /\ s3[PerformanceReportKey(1)] = Absent
    /\ tmp[PerformanceReportFile] = Absent

C14_Witness ==
  /\ NoModel(1)
  /\ valObj[1] # Absent
  /\ ts[1]["check_model_performance"] = "success"
  /\ result[1]["check_model_performance"] = "skipped"

\* the attempt returned the monitored result after doing all of its work
MonitoredInFull(r) ==
  /\ result[r]["check_model_performance"] = "monitored"
  /\ mp[r].i = Len(PerformanceMetricNames)
  /\ mp[r].counter = "none"
  /\ s3[PerformanceReportKey(r)] # Absent

\* what C15 says apart from the counter: exceptions occur only once the model
\* is confirmed, the raise follows the emission, and an attempt that confirmed
\* the model and returned did all of its work without an exception
HardFailureShape(r) ==
  /\ pc[r]["check_model_performance"] \in {"handler", "reraise"} =>
       /\ mp[r].model_exists = Some(TRUE)
       /\ ts[r]["check_model_performance"] = "running"
  /\ pc[r]["check_model_performance"] = "reraise" => mp[r].counter = "emitted"
  /\ Failed(r, "check_model_performance") => mp[r].model_exists = Some(TRUE)
  /\ (ts[r]["check_model_performance"] = "success" /\ mp[r].model_exists = Some(TRUE))
       => MonitoredInFull(r)

AttemptEnded(r, t) == ts[r][t] \in {"success", "up_for_retry", "failed"}

\* the points of the run's quality metrics, the failure counter apart
QualityPoints(r) == {QualityKey(r, n) : n \in Range(QualityMetricNames)}

\* what C16 says apart from the counter: the task never succeeds, never gets
\* past the existence check, and writes no quality report and no quality metric
AbsentDatasetShape(r) ==
  /\ ts[r]["check_data_quality"] # "success"
  /\ result[r]["check_data_quality"] = "none"
  /\ pc[r]["check_data_quality"] \in {"idle", "head", "handler", "reraise"}
  /\ \A k \in QualityPoints(r) : metrics[k] = 0
  /\ s3[QualityReportKey(r)] = Absent
  /\ tmp[QualityReportFile] = Absent
  /\ pc[r]["check_data_quality"] = "reraise" => dq[r].counter = "emitted"

C17_TempFileRemoved ==
  AttemptEnded(1, "check_data_quality") => tmp[MonitoringDataFile] = Absent

\* the quality metrics that have a numeric value for the run's dataset
NumericQualityPoints(r) ==
  {QualityKey(r, n) : n \in {m \in Range(QualityMetricNames) :
                               ~IsNan(ValueOf(rawObj[r]), m)}}

\* C19 (as stated): whenever an attempt of the checker has ended, by return or
\* by failure at any point, either all of its metrics and its report are
\* visible or none of them is.
C19_AllOrNothing ==
  (rawObj[1] # Absent /\ AttemptEnded(1, "check_data_quality")) =>
    \/ /\ \A k \in NumericQualityPoints(1) : metrics[k] > 0
       /\ s3[QualityReportKey(1)] # Absent
    \/ /\ \A k \in QualityPoints(1) : metrics[k] = 0
       /\ s3[QualityReportKey(1)] = Absent

\* C20 (as stated): over a whole run, a retried attempt included, the checker
\* has emitted exactly one point for each metric that has a numeric value.
C20_OnePointPerMetric ==
  (rawObj[1] # Absent /\ ts[1]["check_data_quality"] = "success") =>
    \A k \in NumericQualityPoints(1) : metrics[k] = 1

\* ------------------------------------------------------ C18: fatal errors
\* the points the components emit in their normal course
RegularPoints ==
  {QualityKey(r, n) : r \in Runs, n \in Range(QualityMetricNames)}
  \cup {PerformanceKey(r, n) : r \in Runs, n \in Range(PerformanceMetricNames)}
  \cup {HealthKey(n) : n \in Range(HealthMetricNames)}

\* every other point a component can send to the sink
FailureSignals == MetricKeys \ RegularPoints

\* C18 (as stated): when an attempt of a component has ended with a fatal
\* error, the metrics sink holds a failure counter emitted for it.
C18_FailureCounterEmitted ==
  \A t \in Tasks \ Sinks :
    Failed(1, t) => \E k \in FailureSignals : metrics[k] > 0

\* ------------------------------------------------- C21, C28: the epoch
\* days from 1970-01-01 to the first day of month m of year y
FirstDayOf(y, m) ==
  LET yy == IF m <= 2 THEN y - 1 ELSE y
      era == yy \div 400
      yoe == yy - era * 400
      doy == (153 * (IF m > 2 THEN m - 3 ELSE m + 9) + 2) \div 5
      doe == yoe * 365 + yoe \div 4 - yoe \div 100 + doy
  IN era * DaysPerEra + doe - DaysToCivilEra

\* the day d, counted from 1970-01-01, lies in month e[2] of year e[1]
InMonth(d, e) ==
  /\ e[2] \in 1..12
  /\ FirstDayOf(e[1], e[2]) <= d
  /\ d < (IF e[2] = 12 THEN FirstDayOf(e[1] + 1, 1) ELSE FirstDayOf(e[1], e[2] + 1))

\* every epoch a task of the run evaluated, on any attempt
EvaluatedEpochs == UNION {Range(evaluated[t]) : t \in Resolving}

\* C21: every call of the epoch resolver in one run, by any task on its first
\* attempt or its retry and at any time of the wall clock, returns the same
\* (year, month): the month in which the day 730 days before the trigger lies.
C21_EpochIsFunctionOfTrigger ==
  /\ Cardinality(EvaluatedEpochs) <= 1
  /\ \A e \in EvaluatedEpochs :
       InMonth(OriginDay + DayOf(execTime[1]) - 730, e)

\* a task evaluated the epoch on a first attempt and on a retry, another task
\* evaluated it too, and the clock had passed into the next month by then
C21_Witness ==
  /\ \E t \in Resolving : Len(evaluated[t]) = 2
  /\ \E t, u \in Resolving : t # u /\ evaluated[t] # <<>> /\ evaluated[u] # <<>>
  /\ DateOf(clock).month # DateOf(execTime[1]).month

\* C28: the training run of the same trigger timestamp wrote its model under
\* the very key that check_model_performance of the monitoring run looks up:
\* both resolvers return the same (year, month).
C28_SameEpochAsTraining ==
  /\ MonitoringEpoch(execTime[1]) = TrainingEpoch(execTime[1])
  /\ \A e \in Range(evaluated["check_model_performance"]) :
       trained # {} => ModelKeyOf(e) \in trained

\* the training run wrote its model and check_model_performance evaluated the
\* epoch, for a trigger whose data date is the first day of a month
C28_Witness ==
  /\ trained # {}
  /\ evaluated["check_model_performance"] # <<>>
  /\ DateOf(MinusDays(execTime[1], ShiftDays)).day = 1

\* ------------------------------------------------ C22: the health verdict
\* the 24-hour sums the platform reports
FnState == ValueOf(lambdaFn).State
FnInvocations == ValueOf(lambdaFn).Invocations
FnErrors == ValueOf(lambdaFn).Errors

\* errors / invocations * 100 is below 5, the rate being 0 without invocations
RateBelowFive == FnInvocations = 0 \/ FnErrors * 100 < 5 * FnInvocations

\* C22: the report's error rate is errors/invocations*100 (0 when there was no
\* invocation), its health_status is 'healthy' exactly when the function is
\* 'Active' and that rate is below 5, and the health_check_passed point sent
\* is 1 exactly when the status is 'healthy'.
C22_HealthVerdict ==
  /\ lh[1].health_report # Unset =>
       LET report == ValueOf(lh[1].health_report)
       IN /\ FnInvocations = 0 => report.error_rate_percentage = 0
          /\ FnInvocations > 0 =>
               report.error_rate_percentage * FnInvocations = FnErrors * 100
          /\ report.health_status = "healthy" <=> (FnState = "Active" /\ RateBelowFive)
          /\ FnInvocations = 0 => (report.health_status = "healthy" <=> FnState = "Active")
  /\ lh[1].metric_data # Unset =>
       (ValueOf(lh[1].metric_data).health_check_passed = 1
          <=> ValueOf(lh[1].health_report).health_status = "healthy")
  /\ lh[1].metric_data # Unset =>
       ValueOf(lh[1].metric_data).health_check_passed \in {0, 1}

\* an active function with an error rate of exactly 5 percent was reported
\* unhealthy and the point sent was 0
C22_Witness ==
  /\ lh[1].metric_data # Unset
  /\ FnState = "Active" /\ FnInvocations = 100 /\ FnErrors = 5
  /\ ValueOf(lh[1].metric_data).health_check_passed = 0

\* ------------------------------------------- C23: the completeness score
\* C23 (as stated): for every present raw dataset, an empty one included, the
\* data_completeness_score the checker computed is a number from 0 to 100.
C23_ScoreInRange ==
  (rawObj[1] # Absent /\ dq[1].score # Unset) =>
    /\ ~ValueOf(dq[1].score).nan
    /\ ValueOf(dq[1].score).value >= 0
    /\ ValueOf(dq[1].score).value <= 100

\* --------------------------------------- C24: sinks after the drift result
\* the run's drift result object is in the store
ResultPersisted(r) == s3[ResultsKey(r)] # Absent

\* an attempt of run_drift_check of run r gets past its upload with this step
PassesUpload(r) ==
  pc[r]["run_drift_check"] # "cleanup" /\ pc'[r]["run_drift_check"] = "cleanup"

\* an attempt of run_drift_check of run r returns its selector with this step
ReturnsSelector(r) ==
  ts[r]["run_drift_check"] = "running" /\ ts'[r]["run_drift_check"] = "success"

\* C24: in every run a terminal sink executes only after run_drift_check has
\* succeeded and chosen it, and the attempt that returned the selector had
\* written monitoring/drift-results/{run-date}.json before it returned.
C24_SinkAfterResult ==
  /\ [](\A r \in Runs : \A t \in Sinks :
          Executed(r, t) => /\ ts[r]["run_drift_check"] = "success"
                            /\ selector[r] = t
                            /\ ResultPersisted(r))
  /\ [][\A r \in Runs :
          /\ PassesUpload(r) => /\ tmp[ResultsFile] # Absent
                                 /\ s3'[ResultsKey(r)] = tmp[ResultsFile]
          /\ ReturnsSelector(r) => /\ pc[r]["run_drift_check"] = "cleanup"
                                    /\ ResultPersisted(r)]_vars

\* a run's sink executed after run_drift_check needed its retry
C24_Witness ==
  \E r \in Runs : \E t \in Sinks :
    /\ Executed(r, t)
    /\ tries[r]["run_drift_check"] = 2
    /\ ResultPersisted(r)

\* ------------------------------------- C25: store failures while listing
\* the day partitions the 24 iterations of run r list
ListedDays(r) == {DayOf(execTime[r] - k) : k \in 0..(WindowHours - 1)}

\* C25 (as stated): when the listing of a prediction-log partition of the
\* window raises, the attempt of get_monitoring_data fails; it never completes
\* with Current taken as a copy of Reference.
C25_ListingFailureFailsAttempt ==
  (ListedDays(1) \cap listOutage # {}) =>
    /\ ts[1]["get_monitoring_data"] # "success"
    /\ ~(pc[1]["get_monitoring_data"] \in {"write_ref", "write_cur"}
           /\ current_df[1] = reference_df[1])

\* ------------------------------------- C26: skipped only without a model
\* C26 (as stated): check_model_performance returns the skipped result only
\* when the epoch's model artifact is absent from the store.
C26_SkippedOnlyIfAbsent ==
  result[1]["check_model_performance"] = "skipped" => NoModel(1)

\* ------------------------------------- C27: the Reference rebuilt from raw
\* the columns of the training features and the target
ReferenceColumns == {"PULocationID", "DOLocationID", "trip_distance", "target"}

\* a row as the training-time cleaning rule leaves it
CleanRow(row) ==
  /\ DOMAIN row = ReferenceColumns
  /\ row.target >= 1 /\ row.target <= 60
  /\ row.PULocationID \in STRING
  /\ row.DOLocationID \in STRING

\* raw records whose duration is from 1 to 60 minutes
InRangeRecords(raw) ==
  {i \in 1..Len(raw) :
     /\ raw[i].tpep_dropoff_datetime - raw[i].tpep_pickup_datetime >= 1
     /\ raw[i].tpep_dropoff_datetime - raw[i].tpep_pickup_datetime <= 60}

\* the attempt of run r built a Reference that is not the stored validation
\* split: there is none, or it could not be loaded
RebuiltReference(r) ==
  /\ reference_df[r] # Unset
  /\ \/ valObj[r] = Absent
     \/ ValueOf(reference_df[r]) # ReferenceFromVal(ValueOf(valObj[r]))

\* C27: without a stored validation split, the Reference get_monitoring_data
\* builds comes from the raw dataset: one row per raw record of 1 to 60
\* minutes, each with exactly the columns PULocationID, DOLocationID,
\* trip_distance and target, string location identifiers and a target from 1 to
\* 60; with the raw dataset missing too, the task never succeeds and neither
\* snapshot file is written.
C27_ReferenceFromRaw ==
  /\ RebuiltReference(1) =>
       /\ rawObj[1] # Absent
       /\ \A i \in 1..Len(ValueOf(reference_df[1])) : CleanRow(ValueOf(reference_df[1])[i])
       /\ Len(ValueOf(reference_df[1])) = Cardinality(InRangeRecords(ValueOf(rawObj[1])))
  /\ (valObj[1] = Absent /\ rawObj[1] = Absent) =>
         /\ ts[1]["get_monitoring_data"] # "success"
         /\ reference_df[1] = Unset
         /\ tmp[RefFile] = Absent
         /\ tmp[CurFile] = Absent

\* without a validation split, a raw dataset with a record outside the limits and
\* one at the upper limit gave a Reference of one row, which was handed off
C27_Witness ==
  /\ valObj[1] = Absent /\ rawObj[1] # Absent
  /\ ts[1]["get_monitoring_data"] = "success"
  /\ Len(ValueOf(rawObj[1])) = 2
  /\ Len(ValueOf(reference_df[1])) = 1
  /\ ValueOf(reference_df[1])[1].target = 60
  /\ tmp[RefFile] = reference_df[1]

\* ------------------------------------------------ C29: the model cache
\* calls of load_model so far that returned
Returns == {i \in 1..Len(returned) : returned[i].ok}

\* C29: every pair load_model returned has both components; from the first
\* call that returned on, every call returns that same pair and makes no
\* further read of the object store, whatever the store holds by then and
\* whatever failed before.
C29_FirstLoadWins ==
  /\ \A i \in Returns : returned[i].pair[1] # None /\ returned[i].pair[2] # None
  /\ \A i \in Returns : \A j \in i..Len(returned) :
       /\ returned[j].ok
       /\ returned[j].pair = returned[i].pair
       /\ returned[j].reads = returned[i].reads
  /\ Returns # {} => /\ <<model, dict_vectorizer>> = returned[Len(returned)].pair
                     /\ reads = returned[Len(returned)].reads

\* a load failed after setting the model only, the next one returned a pair
\* from another object, and a later call returned it again although the
\* object had changed once more
C29_Witness ==
  /\ Len(returned) = 3
  /\ ~returned[1].ok /\ returned[2].ok /\ returned[3].ok
  /\ returned[2].pair = <<Some("m2"), Some("v2")>>
  /\ combinedObj # Some([model |-> "m2", vectorizer |-> "v2"])
  /\ reads = 2

\* ------------------------------------------------- C30: the batch handler
\* records of the event of the given kinds
CountKinds(ev, P(_)) == Cardinality({i \in 1..Len(ev) : P(ev[i])})

\* the record's payload decodes and gives the features of a ride
Processable(kind) == kind = "ride"

\* lambda_handler has returned a response for its event
Responded == lam.pc = "idle" /\ lam.response # Unset

\* 200 exactly when load_model returned for this invocation
StatusFollowsLoad ==
  Responded =>
    /\ ValueOf(lam.response).statusCode \in {200, 500}
    /\ ValueOf(lam.response).statusCode = 200 <=> returned[Len(returned)].ok

\* C30 (as stated): the response is 200 exactly when the model loaded, and
\* then processed_count is the number of records whose payload decoded, at
\* most the number of records.
C30_CountsDecodedRecords ==
  /\ StatusFollowsLoad
  /\ (Responded /\ ValueOf(lam.response).statusCode = 200) =>
       /\ ValueOf(lam.response).processed_count = CountKinds(lam.event, Decodes)
       /\ ValueOf(lam.response).processed_count <= Len(lam.event)

\* C30 (amended): the response is 200 exactly when the model loaded, and then
\* processed_count is the number of records whose payload decoded and gave
\* the features of a ride, at most the number of records, whether or not the
\* prediction or the log write of a record succeeded; no record ends the loop.
C30_CountsProcessedRecords ==
  /\ StatusFollowsLoad
  /\ lam.pc = "loop" => /\ lam.i <= Len(lam.event)
                         /\ lam.processed_count =
                              CountKinds(SubSeq(lam.event, 1, lam.i), Processable)
  /\ (Responded /\ ValueOf(lam.response).statusCode = 200) =>
       /\ lam.i = Len(lam.event)
       /\ ValueOf(lam.response).processed_count = CountKinds(lam.event, Processable)
       /\ ValueOf(lam.response).processed_count <= Len(lam.event)
       /\ lam.logged <= lam.processed_count
       /\ lam.defaulted <= lam.processed_count

\* a batch whose first record did not decode and whose second was a ride was
\* answered with 200 and a count of 1, the prediction having fallen back to
\* the default and the log write having failed
C30_Witness ==
  /\ Responded
  /\ lam.event = <<"undecodable", "ride">>
  /\ ValueOf(lam.response) = [statusCode |-> 200, processed_count |-> 1]
  /\ lam.defaulted = 1
  /\ lam.logged = 0

====
